---- MODULE Spec2Model ----
(***************************************************************************)
(* Model of the retrieval-augmented generation pipeline of the K12         *)
(* teaching platform: splitTextIntoChunks (chunker), tokenize,             *)
(* computeScore, retrieveRelevantChunks (selector), the text extractors,   *)
(* the chunk and file store operations of server/db.ts, and the upload,    *)
(* ingestion and deletion of knowledge files.                              *)
(*                                                                         *)
(* Text is a sequence of UTF-16 code units (integers), so that the        *)
(* character classes of the regular expressions of the source are ranges.  *)
(* A relevance score matchCount / sqrt(termCount) is kept as the pair      *)
(* [num |-> matchCount, den |-> termCount]. Two scores are compared as the *)
(* IEEE doubles of the source compare: by num^2 * den' against             *)
(* num'^2 * den when the real values differ, and by the rounding of the    *)
(* two doubles (RoundedUp) when the real values are equal. The rounding is *)
(* tabulated for every termCount up to 64.                                 *)
(***************************************************************************)
EXTENDS Integers, Sequences, FiniteSets, TLC

\* ------------------------------------------------------------------------
\* Bounds of the model
\* ------------------------------------------------------------------------
MaxRunning == 1       \* ingestion tasks between their first and last step at once
MaxRequests == 1      \* store calls, uploads, deletes, retrievals under way at once
MaxRows == 3          \* rows the chunk table may hold
MaxChunksArg == 2     \* largest maxChunks argument tried
MaxCharsArg == 5      \* largest maxChars argument tried
MaxTextLen == 4       \* longest text given to splitTextIntoChunks
MaxChunkSize == 3     \* largest chunkSize argument tried
MaxOverlap == 3       \* largest overlap argument tried
MaxTokenLen == 4      \* longest text given to tokenize
MaxScoreLen == 3      \* longest chunk content given to computeScore

\* ------------------------------------------------------------------------
\* Characters
\* ------------------------------------------------------------------------
Null == "null"

IsLatinLower(c) == c \in 97..122
IsCJK(c) == c \in 19968..40959
IsDigit(c) == c \in 48..57
\* Line 21 reads text.toLowerCase() through /[a-z]{2,}/ only, so the
\* lowered text is kept as far as that pattern tells its code units apart:
\* a unit of a-z is itself, every other unit is written OtherUnit. The
\* lowered text has a unit of a-z exactly where text has a unit of A-Z or
\* a-z, U+212A KELVIN SIGN (lowered to "k") or U+0130 (lowered to "i"
\* followed by U+0307); every other code unit, a surrogate and a capital
\* sigma in any position included, is lowered to one unit outside a-z.
OtherUnit == 0
KelvinSign == 8490
CapitalIWithDot == 304

\* the units that one code unit of text becomes in text.toLowerCase()
LowerCaseUnit(c) ==
  IF c \in 65..90 THEN <<c + 32>>
  ELSE IF IsLatinLower(c) THEN <<c>>
  ELSE IF c = KelvinSign THEN <<107>>
  ELSE IF c = CapitalIWithDot THEN <<105, OtherUnit>>
  ELSE <<OtherUnit>>

\* text.toLowerCase() of line 21, with OtherUnit for every unit outside a-z
RECURSIVE LowerCaseLatin(_)
LowerCaseLatin(text) ==
  IF text = <<>> THEN <<>>
  ELSE LowerCaseLatin(SubSeq(text, 1, Len(text) - 1)) \o LowerCaseUnit(text[Len(text)])

\* All maximal runs of text whose characters have mask TRUE and whose length
\* is at least minLen, left to right: String.prototype.match(/[class]{n,}/g).
RECURSIVE MatchRuns(_, _, _, _, _)
MatchRuns(text, mask, minLen, i, cur) ==
  LET flush == IF Len(cur) >= minLen THEN <<cur>> ELSE <<>>
  IN IF i > Len(text) THEN flush
     ELSE IF mask[i] THEN MatchRuns(text, mask, minLen, i + 1, Append(cur, text[i]))
     ELSE flush \o MatchRuns(text, mask, minLen, i + 1, <<>>)

\* A tokenizer whose bigram loop stops one pair early.
tokenizeShortLoop(text) ==
  LET lower == LowerCaseLatin(text)
      englishWords == MatchRuns(lower, [i \in 1..Len(lower) |-> IsLatinLower(lower[i])], 2, 1, <<>>)
      chineseChars == SelectSeq(text, IsCJK)
      unigrams == [i \in 1..Len(chineseChars) |-> <<chineseChars[i]>>]
      bigrams == [i \in 1..(Len(chineseChars) - 2) |-> <<chineseChars[i], chineseChars[i + 1]>>]
      numbers == MatchRuns(text, [i \in 1..Len(text) |-> IsDigit(text[i])], 1, 1, <<>>)
  IN englishWords \o unigrams \o bigrams \o numbers

\* A tokenizer without the bigrams.
tokenizeNoBigrams(text) ==
  LET lower == LowerCaseLatin(text)
      englishWords == MatchRuns(lower, [i \in 1..Len(lower) |-> IsLatinLower(lower[i])], 2, 1, <<>>)
      chineseChars == SelectSeq(text, IsCJK)
      unigrams == [i \in 1..Len(chineseChars) |-> <<chineseChars[i]>>]
      numbers == MatchRuns(text, [i \in 1..Len(text) |-> IsDigit(text[i])], 1, 1, <<>>)
  IN englishWords \o unigrams \o numbers

\* tokenize: English words of 2+ letters, CJK unigrams, bigrams of
\* consecutive entries of the CJK character list, digit runs.
tokenize(text) ==
  LET lower == LowerCaseLatin(text)
      englishWords == MatchRuns(lower, [i \in 1..Len(lower) |-> IsLatinLower(lower[i])], 2, 1, <<>>)
      chineseChars == SelectSeq(text, IsCJK)
      unigrams == [i \in 1..Len(chineseChars) |-> <<chineseChars[i]>>]
      bigrams == [i \in 1..(Len(chineseChars) - 1) |-> <<chineseChars[i], chineseChars[i + 1]>>]
      numbers == MatchRuns(text, [i \in 1..Len(text) |-> IsDigit(text[i])], 1, 1, <<>>)
  IN englishWords \o unigrams \o bigrams \o numbers

ZeroScore == [num |-> 0, den |-> 1]

\* A scorer without the test for an empty term list.
computeScoreNoGuard(queryTerms, chunkContent) ==
  LET chunkTerms == tokenize(chunkContent)
      matchCount == Cardinality({i \in 1..Len(chunkTerms) : chunkTerms[i] \in queryTerms})
  IN [num |-> matchCount, den |-> Len(chunkTerms)]

\* A scorer that counts the terms that are not in the query.
computeScoreNegated(queryTerms, chunkContent) ==
  LET chunkTerms == tokenize(chunkContent)
      matchCount == Cardinality({i \in 1..Len(chunkTerms) : chunkTerms[i] \notin queryTerms})
  IN IF Len(chunkTerms) = 0 THEN ZeroScore
     ELSE [num |-> matchCount, den |-> Len(chunkTerms)]

\* computeScore: matchCount / sqrt(chunkTerms.length), 0 for no terms.
computeScore(queryTerms, chunkContent) ==
  LET chunkTerms == tokenize(chunkContent)
      matchCount == Cardinality({i \in 1..Len(chunkTerms) : chunkTerms[i] \in queryTerms})
  IN IF Len(chunkTerms) = 0 THEN ZeroScore
     ELSE [num |-> matchCount, den |-> Len(chunkTerms)]

\* the terms of the chunk at which line 56 counts a match, in order
MatchedTerms(queryTerms, chunkContent) ==
  SelectSeq(tokenize(chunkContent), LAMBDA term : term \in queryTerms)

ScoreIsZero(s) == s.num = 0
\* 0 / Math.sqrt(0) is NaN
ScoreIsNaN(s) == s.den = 0
\* The pairs <<matchCount, termCount>>, termCount up to 64, for
\* which the double matchCount / Math.sqrt(termCount) is the larger of the
\* two doubles that the scores of its real value are rounded to (1 / sqrt(3)
\* is 0.5773502691896258 and 3 / sqrt(27) is 0.5773502691896257).
RoundedUp ==
  { <<1, 3>>, <<2, 3>>, <<3, 3>>, <<1, 6>>, <<2, 6>>, <<3, 6>>, <<4, 6>>, <<6, 6>>,
    <<2, 12>>, <<4, 12>>, <<6, 12>>, <<8, 12>>, <<10, 12>>, <<12, 12>>, <<3, 18>>,
    <<6, 18>>, <<9, 18>>, <<12, 18>>, <<15, 18>>, <<18, 18>>, <<2, 24>>, <<4, 24>>,
    <<6, 24>>, <<8, 24>>, <<12, 24>>, <<14, 24>>, <<16, 24>>, <<18, 24>>, <<22, 24>>,
    <<24, 24>>, <<4, 48>>, <<8, 48>>, <<12, 48>>, <<16, 48>>, <<20, 48>>, <<24, 48>>,
    <<32, 48>> }
\* sign of a - b for two scores, as the doubles compare (line 111)
ScoreDiff(a, b) ==
  LET l == a.num * a.num * b.den
      r == b.num * b.num * a.den
      up(s) == IF <<s.num, s.den>> \in RoundedUp THEN 1 ELSE 0
  IN IF l > r THEN 1 ELSE IF l < r THEN -1
     ELSE up(a) - up(b)

\* ------------------------------------------------------------------------
\* retrieveRelevantChunks, lines 97-159: scoring, ranking, selection
\* ------------------------------------------------------------------------
DefaultFileName == <<26410, 30693, 25991, 20214>>
FallbackPerFile == 3

\* fileNameMap[id] || default
FileNameOf(fileNameMap, id) ==
  IF id \in DOMAIN fileNameMap /\ fileNameMap[id] # <<>> THEN fileNameMap[id]
  ELSE DefaultFileName

\* the scored list: one RetrievedChunk per fetched row, in row order
ScoreChunks(allChunks, queryTerms, fileNameMap) ==
  [i \in 1..Len(allChunks) |->
     [fileId |-> allChunks[i].knowledgeFileId,
      fileName |-> FileNameOf(fileNameMap, allChunks[i].knowledgeFileId),
      chunkIndex |-> allChunks[i].chunkIndex,
      content |-> allChunks[i].content,
      score |-> computeScore(queryTerms, allChunks[i].content)]]

\* the comparator of scored.sort: negative when a goes before b
CompareScored(a, b) ==
  IF ScoreDiff(b.score, a.score) # 0 THEN ScoreDiff(b.score, a.score)
  ELSE IF a.fileId # b.fileId THEN a.fileId - b.fileId
  ELSE a.chunkIndex - b.chunkIndex

\* Array.prototype.sort is stable: x, later in the array than every element
\* of sorted, goes after the elements that do not compare greater than it.
RECURSIVE InsertScored(_, _)
InsertScored(sorted, x) ==
  IF sorted = <<>> THEN <<x>>
  ELSE IF CompareScored(sorted[Len(sorted)], x) <= 0 THEN Append(sorted, x)
  ELSE Append(InsertScored(SubSeq(sorted, 1, Len(sorted) - 1), x), sorted[Len(sorted)])

\* The accept loop run on the list as fetched, without the sort.
NoSort(scored) == scored

RECURSIVE SortScored(_)
SortScored(scored) ==
  IF scored = <<>> THEN <<>>
  ELSE InsertScored(SortScored(SubSeq(scored, 1, Len(scored) - 1)), scored[Len(scored)])

RECURSIVE InsertByChunkIndex(_, _)
InsertByChunkIndex(sorted, x) ==
  IF sorted = <<>> THEN <<x>>
  ELSE IF sorted[Len(sorted)].chunkIndex - x.chunkIndex <= 0 THEN Append(sorted, x)
  ELSE Append(InsertByChunkIndex(SubSeq(sorted, 1, Len(sorted) - 1), x), sorted[Len(sorted)])

\* chunks.sort((a, b) => a.chunkIndex - b.chunkIndex) of the fallback
RECURSIVE SortByChunkIndex(_)
SortByChunkIndex(chunks) ==
  IF chunks = <<>> THEN <<>>
  ELSE InsertByChunkIndex(SortByChunkIndex(SubSeq(chunks, 1, Len(chunks) - 1)), chunks[Len(chunks)])

\* An accept loop that leaves out the character budget.
RECURSIVE SelectTopNoBudget(_, _, _, _, _, _)
SelectTopNoBudget(scored, i, selected, totalChars, maxChunks, maxChars) ==
  IF i > Len(scored) THEN [selected |-> selected, totalChars |-> totalChars]
  ELSE IF Len(selected) >= maxChunks THEN [selected |-> selected, totalChars |-> totalChars]
  ELSE IF ScoreIsZero(scored[i].score) /\ Len(selected) > 0
    THEN [selected |-> selected, totalChars |-> totalChars]
  ELSE SelectTopNoBudget(scored, i + 1, Append(selected, scored[i]),
                         totalChars + Len(scored[i].content), maxChunks, maxChars)

\* the accept loop over the sorted list, from position i (lines 117-128)
RECURSIVE SelectTop(_, _, _, _, _, _)
SelectTop(scored, i, selected, totalChars, maxChunks, maxChars) ==
  IF i > Len(scored) THEN [selected |-> selected, totalChars |-> totalChars]
  ELSE IF Len(selected) >= maxChunks THEN [selected |-> selected, totalChars |-> totalChars]
  ELSE IF totalChars + Len(scored[i].content) > maxChars
    THEN [selected |-> selected, totalChars |-> totalChars]
  ELSE IF ScoreIsZero(scored[i].score) /\ Len(selected) > 0
    THEN [selected |-> selected, totalChars |-> totalChars]
  ELSE SelectTop(scored, i + 1, Append(selected, scored[i]),
                 totalChars + Len(scored[i].content), maxChunks, maxChars)

\* the key of a knowledgeFileId in byFile is an array index when the id is
\* not negative (the column is a signed 32-bit INT, so an id is below
\* 2^32 - 1)
IsArrayIndex(id) == id >= 0

\* the ids of S in ascending order
RECURSIVE AscendingSeq(_)
AscendingSeq(S) ==
  IF S = {} THEN <<>>
  ELSE LET m == CHOOSE x \in S : \A y \in S : x <= y
       IN <<m>> \o AscendingSeq(S \ {m})

\* the ids of the list in the order of their first occurrences
RECURSIVE InsertionOrder(_)
InsertionOrder(ids) ==
  IF ids = <<>> THEN <<>>
  ELSE LET front == InsertionOrder(SubSeq(ids, 1, Len(ids) - 1))
           last == ids[Len(ids)]
       IN IF \E i \in 1..Len(front) : front[i] = last THEN front
          ELSE Append(front, last)

\* Object.keys(byFile), line 141: the keys that are array indices in
\* ascending numeric order, then the other keys in the order in which the
\* loop of lines 134-139 added them to byFile, which is the order of the
\* rows of allChunks
ObjectKeys(allChunks) ==
  LET ids == [i \in 1..Len(allChunks) |-> allChunks[i].knowledgeFileId]
  IN AscendingSeq({ids[i] : i \in {j \in 1..Len(ids) : IsArrayIndex(ids[j])}})
       \o InsertionOrder(SelectSeq(ids, LAMBDA id : ~IsArrayIndex(id)))

\* the inner loop of the fallback over sorted.slice(0, 3), from position j
RECURSIVE FallbackFile(_, _, _, _, _, _)
FallbackFile(sorted, j, selected, totalChars, fileNameMap, maxChars) ==
  IF j > Len(sorted) \/ j > FallbackPerFile
    THEN [selected |-> selected, totalChars |-> totalChars]
  ELSE IF totalChars + Len(sorted[j].content) > maxChars
    THEN [selected |-> selected, totalChars |-> totalChars]
  ELSE FallbackFile(sorted, j + 1,
         Append(selected, [fileId |-> sorted[j].knowledgeFileId,
                           fileName |-> FileNameOf(fileNameMap, sorted[j].knowledgeFileId),
                           chunkIndex |-> sorted[j].chunkIndex,
                           content |-> sorted[j].content,
                           score |-> ZeroScore]),
         totalChars + Len(sorted[j].content), fileNameMap, maxChars)

\* the outer loop of the fallback over the keys of byFile, from position k
RECURSIVE FallbackFiles(_, _, _, _, _, _)
FallbackFiles(allChunks, keys, k, acc, fileNameMap, maxChars) ==
  IF k > Len(keys) THEN acc
  ELSE LET chunks == SelectSeq(allChunks, LAMBDA c : c.knowledgeFileId = keys[k])
           sorted == SortByChunkIndex(chunks)
       IN FallbackFiles(allChunks, keys, k + 1,
            FallbackFile(sorted, 1, acc.selected, acc.totalChars, fileNameMap, maxChars),
            fileNameMap, maxChars)

\* lines 130-157
Fallback(allChunks, acc, fileNameMap, maxChars) ==
  IF Len(acc.selected) = 0 /\ Len(allChunks) > 0
    THEN FallbackFiles(allChunks, ObjectKeys(allChunks), 1, acc, fileNameMap, maxChars)
  ELSE acc

\* lines 97-159: the value returned once the rows have been fetched
SelectChunks(allChunks, query, fileNameMap, maxChunks, maxChars) ==
  LET terms == tokenize(query)
      queryTerms == {terms[i] : i \in 1..Len(terms)}
      scored == SortScored(ScoreChunks(allChunks, queryTerms, fileNameMap))
      top == SelectTop(scored, 1, <<>>, 0, maxChunks, maxChars)
  IN Fallback(allChunks, top, fileNameMap, maxChars).selected

\* ------------------------------------------------------------------------
\* splitTextIntoChunks: string helpers
\* ------------------------------------------------------------------------
DEFAULT_CHUNK_SIZE == 800
DEFAULT_CHUNK_OVERLAP == 100

ChNewline == 10
ChSpace == 32
ChFullStop == 46           \* "."
ChExclamation == 33        \* "!"
ChQuestion == 63           \* "?"
ChCjkFullStop == 12290     \* U+3002
ChCjkExclamation == 65281  \* U+FF01
ChCjkQuestion == 65311     \* U+FF1F

\* the characters String.prototype.trim removes (WhiteSpace and LineTerminator)
IsWhitespace(c) ==
  c \in {9, 10, 11, 12, 13, 32, 160, 5760, 8232, 8233, 8239, 8287, 12288, 65279}
        \cup (8192..8202)

Min(a, b) == IF a < b THEN a ELSE b
Max(a, b) == IF a > b THEN a ELSE b
MaxOf(S) == CHOOSE x \in S : \A y \in S : y <= x

\* s.slice(from, to), with 0-based positions: a negative position counts
\* from the end of s, every position is brought into 0..s.length, and
\* nothing is taken when from is not before to
Slice(s, from, to) ==
  LET first == IF from < 0 THEN Max(Len(s) + from, 0) ELSE Min(from, Len(s))
      last == IF to < 0 THEN Max(Len(s) + to, 0) ELSE Min(to, Len(s))
  IN SubSeq(s, first + 1, last)

\* number of whitespace characters at the start / at the end of s
RECURSIVE LeadingWhitespace(_)
LeadingWhitespace(s) ==
  IF s = <<>> \/ ~IsWhitespace(s[1]) THEN 0 ELSE 1 + LeadingWhitespace(Tail(s))

RECURSIVE TrailingWhitespace(_)
TrailingWhitespace(s) ==
  IF s = <<>> \/ ~IsWhitespace(s[Len(s)]) THEN 0
  ELSE 1 + TrailingWhitespace(SubSeq(s, 1, Len(s) - 1))

\* A trim that removes nothing.
NoTrim(s) == s

\* s.trim()
Trim(s) ==
  IF LeadingWhitespace(s) = Len(s) THEN <<>>
  ELSE SubSeq(s, LeadingWhitespace(s) + 1, Len(s) - TrailingWhitespace(s))

\* s.replace(/\n{3,}/g, "\n\n") on positions lo..hi of s: of every run of
\* newlines the first two stay, so a newline goes exactly when the two
\* characters before it are newlines. The range is halved at each step.
RECURSIVE CollapseNewlines(_, _, _)
CollapseNewlines(s, lo, hi) ==
  IF lo > hi THEN <<>>
  ELSE IF lo = hi
    THEN IF s[lo] = ChNewline /\ lo >= 3 /\ s[lo - 1] = ChNewline /\ s[lo - 2] = ChNewline
           THEN <<>> ELSE <<s[lo]>>
  ELSE CollapseNewlines(s, lo, (lo + hi) \div 2) \o CollapseNewlines(s, ((lo + hi) \div 2) + 1, hi)

\* line 23
CleanText(text) == Trim(CollapseNewlines(text, 1, Len(text)))

\* segment.lastIndexOf(pattern): 0-based, -1 when absent
LastIndexOf(segment, pattern) ==
  LET hits == {i \in 0..(Len(segment) - Len(pattern)) :
                 SubSeq(segment, i + 1, i + Len(pattern)) = pattern}
  IN IF hits = {} THEN -1 ELSE MaxOf(hits)

\* lines 50-57
LastSentence(segment) ==
  MaxOf({LastIndexOf(segment, <<ChCjkFullStop>>),
         LastIndexOf(segment, <<ChCjkExclamation>>),
         LastIndexOf(segment, <<ChCjkQuestion>>),
         LastIndexOf(segment, <<ChFullStop, ChSpace>>),
         LastIndexOf(segment, <<ChExclamation, ChSpace>>),
         LastIndexOf(segment, <<ChQuestion, ChSpace>>)})

\* A threshold at half of chunkSize.
PastHalf(x, chunkSize) == 2 * x > chunkSize

\* x > chunkSize * 0.3 for an integer x
PastThreshold(x, chunkSize) == 10 * x > 3 * chunkSize

\* lines 38-62: the cut of the window that starts at start
CutPoint(cleanedText, start, chunkSize) ==
  LET end == Min(start + chunkSize, Len(cleanedText))
      segment == Slice(cleanedText, start, end)
      lastParagraph == LastIndexOf(segment, <<ChNewline, ChNewline>>)
      lastSentence == LastSentence(segment)
  IN IF end < Len(cleanedText)
       THEN IF PastThreshold(lastParagraph, chunkSize) THEN start + lastParagraph + 2
            ELSE IF PastThreshold(lastSentence, chunkSize) THEN start + lastSentence + 1
            ELSE end
       ELSE end

\* A window advance with the sign of the overlap slipped.
NextStartSignSlip(end, overlap, contentLength, chunkCount) ==
  IF end + overlap <= (IF chunkCount > 0 THEN end - contentLength ELSE 0) THEN end
  ELSE end + overlap

\* A window advance without the guard against standing still.
NextStartNoGuard(end, overlap, contentLength, chunkCount) == end - overlap

\* lines 75-79: the start of the next window
NextStart(end, overlap, contentLength, chunkCount) ==
  IF end - overlap <= (IF chunkCount > 0 THEN end - contentLength ELSE 0) THEN end
  ELSE end - overlap

\* A single-chunk test that misses texts of exactly chunkSize characters.
IsSingleChunkStrict(cleanedText, chunkSize) == Len(cleanedText) < chunkSize

\* line 25
IsSingleChunk(cleanedText, chunkSize) == Len(cleanedText) <= chunkSize

\* lines 37-80 as a function: the chunks pushed from the window at start on
RECURSIVE SplitFrom(_, _, _, _, _)
SplitFrom(cleaned, from, pushedSoFar, chunkSize, overlap) ==
  IF ~(from < Len(cleaned)) THEN pushedSoFar
  ELSE LET end == CutPoint(cleaned, from, chunkSize)
           content == Trim(Slice(cleaned, from, end))
           next == IF Len(content) > 0
                     THEN Append(pushedSoFar, [index |-> Len(pushedSoFar), content |-> content,
                                               charCount |-> Len(content)])
                     ELSE pushedSoFar
       IN SplitFrom(cleaned, NextStart(end, overlap, Len(content), Len(next)), next,
                    chunkSize, overlap)

\* splitTextIntoChunks(text, chunkSize, overlap), lines 14-83, as a function
splitTextIntoChunks(text, chunkSize, overlap) ==
  IF Len(text) = 0 \/ Len(Trim(text)) = 0 THEN <<>>
  ELSE LET cleaned == CleanText(text)
       IN IF IsSingleChunk(cleaned, chunkSize)
            THEN <<[index |-> 0, content |-> cleaned, charCount |-> Len(cleaned)]>>
            ELSE SplitFrom(cleaned, 0, <<>>, chunkSize, overlap)

\* ------------------------------------------------------------------------
\* extractTextFromFile, extractTextFromBuffer
\* ------------------------------------------------------------------------
\* The outcome of a call: it threw, or it returned text.
Threw == [threw |-> TRUE, text |-> <<>>]
Returns(t) == [threw |-> FALSE, text |-> t]

\* MIME types are texts, as file names are
\* "application/pdf"
MimePdf ==
  <<97, 112, 112, 108, 105, 99, 97, 116, 105, 111, 110, 47, 112, 100, 102>>
\* "application/vnd.openxmlformats-officedocument.wordprocessingml.document"
MimeDocx ==
  <<97, 112, 112, 108, 105, 99, 97, 116, 105, 111, 110, 47, 118, 110, 100,
    46, 111, 112, 101, 110, 120, 109, 108, 102, 111, 114, 109, 97, 116,
    115, 45, 111, 102, 102, 105, 99, 101, 100, 111, 99, 117, 109, 101,
    110, 116, 46, 119, 111, 114, 100, 112, 114, 111, 99, 101, 115, 115,
    105, 110, 103, 109, 108, 46, 100, 111, 99, 117, 109, 101, 110, 116>>
\* "application/msword"
MimeDoc ==
  <<97, 112, 112, 108, 105, 99, 97, 116, 105, 111, 110, 47, 109, 115, 119,
    111, 114, 100>>
PrefixText == <<116, 101, 120, 116, 47>>    \* "text/"

\* s.startsWith(prefix)
StartsWith(s, prefix) ==
  /\ Len(s) >= Len(prefix)
  /\ SubSeq(s, 1, Len(prefix)) = prefix

\* mimeType.startsWith("text/")
StartsWithText(mimeType) == StartsWith(mimeType, PrefixText)

\* "text/plain", "text/markdown", "text/html", "text/", "image/png",
\* "application/octet-stream"
MimeTextPlain == PrefixText \o <<112, 108, 97, 105, 110>>
MimeTextMarkdown == PrefixText \o <<109, 97, 114, 107, 100, 111, 119, 110>>
MimeTextHtml == PrefixText \o <<104, 116, 109, 108>>
MimeImagePng == <<105, 109, 97, 103, 101, 47, 112, 110, 103>>
MimeOctetStream ==
  <<97, 112, 112, 108, 105, 99, 97, 116, 105, 111, 110, 47, 111, 99, 116,
    101, 116, 45, 115, 116, 114, 101, 97, 109>>

SuffixPdf == <<46, 112, 100, 102>>          \* ".pdf"
SuffixDocx == <<46, 100, 111, 99, 120>>     \* ".docx"
SuffixDoc == <<46, 100, 111, 99>>           \* ".doc"
SuffixTxt == <<46, 116, 120, 116>>          \* ".txt"
SuffixMd == <<46, 109, 100>>                \* ".md"

\* fileName.endsWith(suffix)
EndsWith(fileName, suffix) ==
  /\ Len(fileName) >= Len(suffix)
  /\ SubSeq(fileName, Len(fileName) - Len(suffix) + 1, Len(fileName)) = suffix

\* A buffer is known by what each decoder makes of its bytes: pdf is the
\* outcome of the PDF parser, docx that of mammoth, utf8 the UTF-8 decoding.
extractPdfText(buffer) == buffer.pdf
extractDocxText(buffer) == buffer.docx
extractPlainText(buffer) == Returns(buffer.utf8)

\* An extractor that tests the plain-text rule before the decoders.
extractPlainTextFirst(buffer, mimeType, fileName) ==
  IF StartsWithText(mimeType) \/ EndsWith(fileName, SuffixTxt) \/ EndsWith(fileName, SuffixMd)
    THEN extractPlainText(buffer)
  ELSE IF mimeType = MimePdf \/ EndsWith(fileName, SuffixPdf) THEN extractPdfText(buffer)
  ELSE IF mimeType = MimeDocx \/ EndsWith(fileName, SuffixDocx) THEN extractDocxText(buffer)
  ELSE IF mimeType = MimeDoc \/ EndsWith(fileName, SuffixDoc) THEN extractPlainText(buffer)
  ELSE Returns(<<>>)

\* extractTextFromBuffer(buffer, mimeType, fileName), lines 278-310
extractTextFromBuffer(buffer, mimeType, fileName) ==
  IF mimeType = MimePdf \/ EndsWith(fileName, SuffixPdf) THEN extractPdfText(buffer)
  ELSE IF mimeType = MimeDocx \/ EndsWith(fileName, SuffixDocx) THEN extractDocxText(buffer)
  ELSE IF mimeType = MimeDoc \/ EndsWith(fileName, SuffixDoc) THEN extractPlainText(buffer)
  ELSE IF StartsWithText(mimeType) \/ EndsWith(fileName, SuffixTxt) \/ EndsWith(fileName, SuffixMd)
    THEN extractPlainText(buffer)
  ELSE Returns(<<>>)

\* An extractor from the object store without the rule for legacy Word files.
extractFromFileWithoutDoc(fetched, mimeType, fileName) ==
  IF ~fetched.ok THEN Threw
  ELSE IF mimeType = MimePdf \/ EndsWith(fileName, SuffixPdf) THEN extractPdfText(fetched.buffer)
  ELSE IF mimeType = MimeDocx \/ EndsWith(fileName, SuffixDocx)
    THEN extractDocxText(fetched.buffer)
  ELSE IF StartsWithText(mimeType) \/ EndsWith(fileName, SuffixTxt) \/ EndsWith(fileName, SuffixMd)
    THEN extractPlainText(fetched.buffer)
  ELSE Returns(<<>>)

\* extractTextFromFile(fileKey, mimeType, fileName), lines 237-273: fetched is
\* the outcome of fetchFileFromS3(fileKey), which throws (ok FALSE) or
\* returns the buffer stored under the key
extractTextFromFile(fetched, mimeType, fileName) ==
  IF ~fetched.ok THEN Threw
  ELSE IF mimeType = MimePdf \/ EndsWith(fileName, SuffixPdf) THEN extractPdfText(fetched.buffer)
  ELSE IF mimeType = MimeDocx \/ EndsWith(fileName, SuffixDocx)
    THEN extractDocxText(fetched.buffer)
  ELSE IF mimeType = MimeDoc \/ EndsWith(fileName, SuffixDoc)
    THEN extractPlainText(fetched.buffer)
  ELSE IF StartsWithText(mimeType) \/ EndsWith(fileName, SuffixTxt) \/ EndsWith(fileName, SuffixMd)
    THEN extractPlainText(fetched.buffer)
  ELSE Returns(<<>>)

\* ------------------------------------------------------------------------
\* State
\* ------------------------------------------------------------------------
VARIABLES
  dbUrl,            \* process.env.DATABASE_URL is set
  dbUp,             \* the database server answers queries
  dbHandle,         \* _db of server/db.ts: Null or "drizzle"
  knowledgeChunks,  \* the knowledge_chunks table, rows in insertion order
  pc,               \* "idle", or "done" when a retrieval has finished
  call,             \* the arguments of the retrieval that has finished
  allChunks,        \* the rows its select returned, in the order returned
  result,           \* the list it returned
  outcome,          \* "none", "returned" or "threw"
  dbObtained,       \* the retrieval called getDb
  storeRead,        \* the retrieval issued its select
  text,             \* splitTextIntoChunks: the text argument
  chunkSize,        \* its chunkSize argument
  overlap,          \* its overlap argument
  cpc,              \* its position: "begin", "loop" or "returned"
  cleanedText,      \* its locals cleanedText, start, index and chunks
  start,
  index,
  chunks,
  lastEnd,          \* its local end: the cut of the window of the last iteration
  covered,          \* positions of cleanedText that lie in an emitted content
  iterations,       \* iterations of the while loop made so far
  spc,              \* tokenizer and scorer: "idle", "tokenized" or "scored"
  tokText,          \* tokenize: the text argument
  terms,            \* the list it returned
  scQuery,          \* the query whose term set is scored against
  scChunkA,         \* computeScore: the content of a first chunk
  scChunkB,         \* and of a second chunk
  scoreA,           \* the score returned for the first chunk
  scoreB,           \* and for the second
  matchedA,         \* the terms of the first chunk counted as matches
  knowledgeFiles,   \* the knowledge_files table: the row of each id, or Null
  nextFileId,       \* its AUTO_INCREMENT counter
  storage,          \* the object store: the buffer put under each key
  tasks,            \* the ingestion task of each file: its position and locals
  deleting,         \* the deleteKnowledgeFile call under way and its position
  uploading,        \* the knowledge.upload request under way and its position
  xpc,              \* extractors: "idle" or "extracted"
  xCall,            \* the buffer, MIME type and file name they were called with
  xFromBuffer,      \* the outcome of extractTextFromBuffer
  xFromFile,        \* the outcome of extractTextFromFile
  fpc,              \* formatter: "idle" or "formatted"
  fChunks,          \* the list formatRetrievalContext was called with
  fOut,             \* its outcome: the text returned, or that it threw
  resourceTemplates,\* the resource_templates table: usageCount, createdBy by id
  incCalls,         \* each caller's incrementTemplateUsage call: step and locals
  incReturned,      \* per template id, the calls that have returned
  nextTemplateId,   \* the AUTO_INCREMENT value of resource_templates
  dbCalls           \* each caller's chunk-store call between getDb and its statement

storeVars == <<dbUrl, dbUp, dbHandle, knowledgeChunks>>
selectorVars == <<pc, call, allChunks, result, outcome, dbObtained, storeRead>>
chunkerVars ==
  <<text, chunkSize, overlap, cpc, cleanedText, start, index, chunks, lastEnd, covered,
    iterations>>
scorerVars == <<spc, tokText, terms, scQuery, scChunkA, scChunkB, scoreA, scoreB, matchedA>>
fileVars == <<knowledgeFiles, nextFileId, storage, tasks, deleting, uploading>>
extractorVars == <<xpc, xCall, xFromBuffer, xFromFile>>
formatterVars == <<fpc, fChunks, fOut>>
templateVars == <<resourceTemplates, incCalls, incReturned, nextTemplateId>>
callVars == <<dbCalls>>
auxVars == <<extractorVars, formatterVars, templateVars, callVars>>
vars == <<storeVars, selectorVars, chunkerVars, scorerVars, fileVars, auxVars>>

\* ------------------------------------------------------------------------
\* Inputs
\* ------------------------------------------------------------------------
\* ids the document table assigns
FileIds == {1, 2}
OwnerOf(fileId) == 1

TxtAB == <<97, 98>>                    \* "ab"
TxtABAB == <<97, 98, 32, 97, 98>>      \* "ab ab"
TxtFenShu == <<20998, 25968>>          \* U+5206 U+6570
TxtX == <<120>>                        \* "x"

\* chunk contents of the documents that get ingested
SampleDocs ==
  { <<TxtX>>,
    <<TxtX, TxtAB>>,
    <<TxtX, TxtABAB>>,
    <<TxtAB, TxtFenShu, TxtAB>>,
    <<TxtX, TxtX, TxtABAB>>,
    <<TxtX, TxtAB, TxtX, TxtX>> }

\* the ingestions tried: every sample under an assigned id, two of them
\* under stray ids
IngestInputs ==
  (FileIds \X SampleDocs) \cup { <<-1, <<TxtX, TxtABAB>> >>, <<-2, <<TxtX>> >> }

Queries == { <<>>, TxtAB, <<97, 98, 32, 20998>> }
IdLists == { <<>>, <<1>>, <<1, 2>>, <<-1, -2>> }
\* document 1 is named "ab", document 2 has no entry and gets the default name
NameMaps == { <<TxtAB>> }

NoCall == [knowledgeFileIds |-> <<>>, query |-> <<>>, fileNameMap |-> <<>>,
           maxChunks |-> 0, maxChars |-> 0]

Range(s) == {s[i] : i \in 1..Len(s)}

\* every order in which a select without ORDER BY may return the rows
RowOrders(rows) ==
  {[i \in 1..Len(rows) |-> rows[p[i]]] : p \in Permutations(1..Len(rows))}

\* the rows of one document as the ingestion inserts them: index 0..n-1
ChunkRows(fileId, doc) ==
  [i \in 1..Len(doc) |->
     [knowledgeFileId |-> fileId, userId |-> OwnerOf(fileId), chunkIndex |-> i - 1,
      content |-> doc[i], charCount |-> Len(doc[i])]]

\* ------------------------------------------------------------------------
\* server/db.ts
\* ------------------------------------------------------------------------
\* getDb: the handle is created on first use when DATABASE_URL is set;
\* connected says whether drizzle() returned (TRUE) or threw (FALSE).
getDb(handle, url, connected) ==
  IF handle = Null /\ url THEN (IF connected THEN "drizzle" ELSE Null)
  ELSE handle

\* no retrieval has been made
SelectorIdle ==
  /\ pc = "idle"
  /\ call = NoCall
  /\ allChunks = <<>>
  /\ result = <<>>
  /\ outcome = "none"
  /\ dbObtained = FALSE
  /\ storeRead = FALSE

\* splitTextIntoChunks has not been called
ChunkerIdle ==
  /\ text = <<>>
  /\ chunkSize = DEFAULT_CHUNK_SIZE
  /\ overlap = DEFAULT_CHUNK_OVERLAP
  /\ cpc = "idle"
  /\ cleanedText = <<>>
  /\ start = 0
  /\ index = 0
  /\ chunks = <<>>
  /\ lastEnd = 0
  /\ covered = {}
  /\ iterations = 0

\* neither tokenize nor computeScore has been called
ScorerIdle ==
  /\ spc = "idle"
  /\ tokText = <<>>
  /\ terms = <<>>
  /\ scQuery = <<>>
  /\ scChunkA = <<>>
  /\ scChunkB = <<>>
  /\ scoreA = ZeroScore
  /\ scoreB = ZeroScore
  /\ matchedA = <<>>

NoBuffer == [pdf |-> Threw, docx |-> Threw, utf8 |-> <<>>]
NoDelete == [active |-> FALSE, step |-> "none", id |-> 0, userId |-> 0]
NoInput == [fileName |-> <<>>, mimeType |-> <<>>, buffer |-> NoBuffer]
NoUpload == [step |-> "none", userId |-> 0, fileKey |-> <<>>, fileId |-> 0, input |-> NoInput]

\* no extractor has been called
ExtractorIdle ==
  /\ xpc = "idle"
  /\ xCall = [buffer |-> NoBuffer, mimeType |-> <<>>, fileName |-> <<>>, fetchOk |-> FALSE]
  /\ xFromBuffer = Returns(<<>>)
  /\ xFromFile = Returns(<<>>)

\* formatRetrievalContext has not been called
FormatterIdle ==
  /\ fpc = "idle"
  /\ fChunks = <<>>
  /\ fOut = Returns(<<>>)

\* the templates that exist, and the callers of incrementTemplateUsage
TemplateIds == {1, 2}
\* the ids the routes are called with: the templates there are at the start
\* and the id of the next template
IncrementIds == TemplateIds \cup {Cardinality(TemplateIds) + 1}
CallerIds == {1, 2}
\* the result of a select that found no row (undefined)
NoTemplate == [found |-> FALSE, usageCount |-> 0]
NoIncrement == [step |-> "idle", id |-> 0, userId |-> 0, template |-> NoTemplate]

\* every template is unused (usageCount default 0) and was uploaded by
\* user 1, and no call is under way
TemplatesIdle ==
  /\ resourceTemplates = [id \in TemplateIds |-> [usageCount |-> 0, createdBy |-> 1]]
  /\ incCalls = [c \in CallerIds |-> NoIncrement]
  /\ incReturned = [id \in IncrementIds |-> 0]
  /\ nextTemplateId = Cardinality(TemplateIds) + 1

\* no caller has a chunk-store call under way
NoDbCall == [op |-> "none", knowledgeFileId |-> 0, rows |-> <<>>]
CallsIdle == dbCalls = [c \in CallerIds |-> NoDbCall]

AuxIdle == ExtractorIdle /\ FormatterIdle /\ TemplatesIdle /\ CallsIdle

\* no file has been uploaded and no delete is under way
FilesIdle ==
  /\ knowledgeFiles = <<>>
  /\ nextFileId = 1
  /\ storage = <<>>
  /\ tasks = <<>>
  /\ deleting = NoDelete
  /\ uploading = NoUpload

Init ==
  /\ dbUrl \in BOOLEAN
  /\ dbUp \in BOOLEAN
  /\ dbHandle = Null
  /\ knowledgeChunks = <<>>
  /\ SelectorIdle
  /\ ChunkerIdle
  /\ ScorerIdle
  /\ FilesIdle
  /\ AuxIdle

\* the rows of the inserts that are under way
RECURSIVE RowsUnderWay(_)
RowsUnderWay(S) ==
  IF S = {} THEN 0
  ELSE LET c == CHOOSE x \in S : TRUE IN Len(dbCalls[c].rows) + RowsUnderWay(S \ {c})

\* db.insert(knowledgeChunks).values(chunks), db.ts 164
insertValues(table, rows) == table \o rows

\* A delete that blanks the rows of the file and leaves them in the table.
blankWhereFileId(table, knowledgeFileId) ==
  [i \in 1..Len(table) |->
     IF table[i].knowledgeFileId # knowledgeFileId THEN table[i]
     ELSE [table[i] EXCEPT !.content = <<>>, !.charCount = 0]]

\* db.delete(knowledgeChunks).where(eq(knowledgeChunks.knowledgeFileId, id)),
\* db.ts 171 and 130
deleteWhereFileId(table, knowledgeFileId) ==
  SelectSeq(table, LAMBDA r : r.knowledgeFileId # knowledgeFileId)

\* createKnowledgeChunks(chunks), db.ts 160-162, called by caller c with
\* rows as its chunks argument: it returns for the empty list, else awaits
\* getDb and throws when there is no handle
createKnowledgeChunks(c, rows) ==
  /\ pc # "done"
  /\ dbCalls[c] = NoDbCall
  /\ Len(knowledgeChunks) + RowsUnderWay(CallerIds) + Len(rows) <= MaxRows
  /\ IF Len(rows) = 0
       THEN UNCHANGED <<dbHandle, dbCalls>>
       ELSE \E connected \in BOOLEAN :
              LET db == getDb(dbHandle, dbUrl, connected)
              IN /\ dbHandle' = db
                 /\ dbCalls' =
                      IF db = Null THEN dbCalls   \* throws
                      ELSE [dbCalls EXCEPT ![c] =
                              [op |-> "insert", knowledgeFileId |-> 0, rows |-> rows]]
  /\ UNCHANGED <<dbUrl, dbUp, knowledgeChunks, selectorVars, chunkerVars, scorerVars>>
  /\ UNCHANGED <<extractorVars, formatterVars, templateVars>>

\* createKnowledgeChunks, db.ts 164: the awaited insert of caller c; it
\* throws when the server does not answer
insertKnowledgeChunks(c) ==
  /\ pc # "done"
  /\ dbCalls[c].op = "insert"
  /\ knowledgeChunks' =
       IF ~dbUp THEN knowledgeChunks ELSE insertValues(knowledgeChunks, dbCalls[c].rows)
  /\ dbCalls' = [dbCalls EXCEPT ![c] = NoDbCall]
  /\ UNCHANGED <<dbUrl, dbUp, dbHandle, selectorVars, chunkerVars, scorerVars>>
  /\ UNCHANGED <<extractorVars, formatterVars, templateVars>>

\* deleteKnowledgeChunksByFileId(knowledgeFileId), db.ts 168-169, called by
\* caller c: getDb, and a throw when there is no handle
deleteKnowledgeChunksByFileId(c, knowledgeFileId) ==
  /\ pc # "done"
  /\ dbCalls[c] = NoDbCall
  /\ \E connected \in BOOLEAN :
       LET db == getDb(dbHandle, dbUrl, connected)
       IN /\ dbHandle' = db
          /\ dbCalls' =
               IF db = Null THEN dbCalls   \* throws
               ELSE [dbCalls EXCEPT ![c] =
                       [op |-> "delete", knowledgeFileId |-> knowledgeFileId, rows |-> <<>>]]
  /\ UNCHANGED <<dbUrl, dbUp, knowledgeChunks, selectorVars, chunkerVars, scorerVars>>
  /\ UNCHANGED <<extractorVars, formatterVars, templateVars>>

\* deleteKnowledgeChunksByFileId, db.ts 171: the awaited delete of caller c
deleteKnowledgeChunks(c) ==
  /\ pc # "done"
  /\ dbCalls[c].op = "delete"
  /\ knowledgeChunks' =
       IF ~dbUp THEN knowledgeChunks
       ELSE deleteWhereFileId(knowledgeChunks, dbCalls[c].knowledgeFileId)
  /\ dbCalls' = [dbCalls EXCEPT ![c] = NoDbCall]
  /\ UNCHANGED <<dbUrl, dbUp, dbHandle, selectorVars, chunkerVars, scorerVars>>
  /\ UNCHANGED <<extractorVars, formatterVars, templateVars>>

\* ------------------------------------------------------------------------
\* retrieveRelevantChunks
\* ------------------------------------------------------------------------
\* A test of the id list that never short-circuits.
NeverEmptyIdList(knowledgeFileIds) == FALSE

\* line 80: knowledgeFileIds.length === 0
IsEmptyIdList(knowledgeFileIds) == Len(knowledgeFileIds) = 0

\* retrieveRelevantChunks, lines 80-85: the test of the id list, getDb, and
\* the return of [] when there is no handle
retrieveRelevantChunks(knowledgeFileIds, query, fileNameMap, maxChunks, maxChars) ==
  /\ pc = "idle"
  /\ call' = [knowledgeFileIds |-> knowledgeFileIds, query |-> query,
              fileNameMap |-> fileNameMap, maxChunks |-> maxChunks, maxChars |-> maxChars]
  /\ result' = <<>>
  /\ allChunks' = <<>>
  /\ storeRead' = FALSE
  /\ IF IsEmptyIdList(knowledgeFileIds)
       THEN /\ pc' = "done"
            /\ outcome' = "returned"
            /\ dbObtained' = FALSE
            /\ UNCHANGED dbHandle
       ELSE \E connected \in BOOLEAN :
              LET db == getDb(dbHandle, dbUrl, connected)
              IN /\ dbHandle' = db
                 /\ dbObtained' = TRUE
                 /\ IF db = Null
                      THEN \* line 85: if (!db) return []
                           /\ pc' = "done"
                           /\ outcome' = "returned"
                      ELSE /\ pc' = "selecting"
                           /\ outcome' = "none"
  /\ UNCHANGED <<dbUrl, dbUp, knowledgeChunks, chunkerVars, scorerVars, fileVars, auxVars>>

\* retrieveRelevantChunks, lines 88-159: the awaited select, which rejects
\* when the server does not answer, and the selection from the rows
selectKnowledgeChunks ==
  /\ pc = "selecting"
  /\ pc' = "done"
  /\ storeRead' = TRUE
  /\ IF ~dbUp
       THEN \* the select rejects and the rejection propagates
            /\ result' = <<>>
            /\ outcome' = "threw"
            /\ allChunks' = <<>>
       ELSE \E rows \in RowOrders(SelectSeq(knowledgeChunks,
                   LAMBDA r : r.knowledgeFileId \in Range(call.knowledgeFileIds))) :
              /\ allChunks' = rows
              /\ outcome' = "returned"
              /\ result' = IF Len(rows) = 0 THEN <<>>
                           ELSE SelectChunks(rows, call.query, call.fileNameMap,
                                             call.maxChunks, call.maxChars)
  /\ UNCHANGED <<call, dbObtained>>
  /\ UNCHANGED <<storeVars, chunkerVars, scorerVars, fileVars, auxVars>>

\* the caller takes the result
TakeResult ==
  /\ pc = "done"
  /\ pc' = "idle"
  /\ call' = NoCall
  /\ allChunks' = <<>>
  /\ result' = <<>>
  /\ outcome' = "none"
  /\ dbObtained' = FALSE
  /\ storeRead' = FALSE
  /\ UNCHANGED <<storeVars, chunkerVars, scorerVars, fileVars, auxVars>>

\* a document is ingested once: its chunks are inserted in bulk
\* the uploads, file deletes, chunk inserts, chunk deletes and retrievals
\* that have begun and not ended
RequestsUnderWay ==
  Cardinality({c \in CallerIds : dbCalls[c] # NoDbCall})
    + (IF uploading # NoUpload THEN 1 ELSE 0)
    + (IF deleting # NoDelete THEN 1 ELSE 0)
    + (IF pc # "idle" THEN 1 ELSE 0)

Ingest ==
  /\ pc # "done"
  /\ RequestsUnderWay < MaxRequests
  /\ \E c \in CallerIds, input \in IngestInputs :
       LET fileId == input[1]
           doc == input[2]
       IN /\ \A i \in 1..Len(knowledgeChunks) : knowledgeChunks[i].knowledgeFileId # fileId
          /\ \A d \in CallerIds :
               \A i \in 1..Len(dbCalls[d].rows) : dbCalls[d].rows[i].knowledgeFileId # fileId
          /\ createKnowledgeChunks(c, ChunkRows(fileId, doc))
  /\ UNCHANGED fileVars

IngestNothing ==
  /\ RequestsUnderWay < MaxRequests
  /\ \E c \in CallerIds : createKnowledgeChunks(c, <<>>)
  /\ UNCHANGED fileVars

InsertChunks ==
  /\ \E c \in CallerIds : insertKnowledgeChunks(c)
  /\ UNCHANGED fileVars

DeleteChunks ==
  /\ pc # "done"
  /\ RequestsUnderWay < MaxRequests
  /\ \E c \in CallerIds, fileId \in FileIds : deleteKnowledgeChunksByFileId(c, fileId)
  /\ UNCHANGED fileVars

DeleteChunksRun ==
  /\ \E c \in CallerIds : deleteKnowledgeChunks(c)
  /\ UNCHANGED fileVars

Retrieve ==
  /\ pc = "idle"
  /\ RequestsUnderWay < MaxRequests
  /\ \E knowledgeFileIds \in IdLists, query \in Queries, fileNameMap \in NameMaps,
        maxChunks \in 1..MaxChunksArg, maxChars \in 0..MaxCharsArg :
       retrieveRelevantChunks(knowledgeFileIds, query, fileNameMap, maxChunks, maxChars)

Next ==
  \/ Ingest
  \/ IngestNothing
  \/ InsertChunks
  \/ DeleteChunks
  \/ DeleteChunksRun
  \/ Retrieve
  \/ selectKnowledgeChunks
  \/ TakeResult

Spec == Init /\ [][Next]_vars

\* ------------------------------------------------------------------------
\* splitTextIntoChunks as a process: entry, one step per iteration of the
\* while loop, return
\* ------------------------------------------------------------------------
ChunkerAlphabet == {97, ChSpace, ChNewline, ChCjkFullStop, ChFullStop}

\* all texts of length 0..n over the alphabet
RECURSIVE TextsUpTo(_)
TextsUpTo(n) ==
  IF n = 0 THEN {<<>>}
  ELSE LET shorter == TextsUpTo(n - 1)
       IN shorter \cup {Append(t, c) : t \in {u \in shorter : Len(u) = n - 1},
                                        c \in ChunkerAlphabet}

ChunkerInit ==
  /\ dbUrl = FALSE
  /\ dbUp = FALSE
  /\ dbHandle = Null
  /\ knowledgeChunks = <<>>
  /\ SelectorIdle
  /\ ChunkerIdle
  /\ ScorerIdle
  /\ FilesIdle
  /\ AuxIdle

\* splitTextIntoChunks(text, chunkSize, overlap) is called
splitCall(textArg, chunkSizeArg, overlapArg) ==
  /\ cpc = "idle"
  /\ text' = textArg
  /\ chunkSize' = chunkSizeArg
  /\ overlap' = overlapArg
  /\ cpc' = "begin"
  /\ UNCHANGED <<cleanedText, start, index, chunks, lastEnd, covered, iterations>>
  /\ UNCHANGED <<storeVars, selectorVars, scorerVars, fileVars, auxVars>>

\* lines 19-35
splitBegin ==
  /\ cpc = "begin"
  /\ IF Len(text) = 0 \/ Len(Trim(text)) = 0
       THEN /\ cpc' = "returned"
            /\ UNCHANGED <<cleanedText, chunks, covered>>
       ELSE /\ cleanedText' = CleanText(text)
            /\ IF IsSingleChunk(cleanedText', chunkSize)
                 THEN /\ cpc' = "returned"
                      /\ chunks' = <<[index |-> 0, content |-> cleanedText',
                                      charCount |-> Len(cleanedText')]>>
                      /\ covered' = 0..(Len(cleanedText') - 1)
                 ELSE /\ cpc' = "loop"
                      /\ UNCHANGED <<chunks, covered>>
  /\ UNCHANGED <<start, index, lastEnd, iterations>>
  /\ UNCHANGED <<text, chunkSize, overlap, storeVars, selectorVars, scorerVars, fileVars, auxVars>>

\* lines 37-80: one iteration
splitLoop ==
  /\ cpc = "loop"
  /\ start < Len(cleanedText)
  /\ LET end == CutPoint(cleanedText, start, chunkSize)
         raw == Slice(cleanedText, start, end)
         content == Trim(raw)
         pushed == Len(content) > 0
     IN /\ chunks' = IF pushed
                       THEN Append(chunks, [index |-> index, content |-> content,
                                            charCount |-> Len(content)])
                       ELSE chunks
        /\ index' = IF pushed THEN index + 1 ELSE index
        /\ covered' = IF pushed
                        THEN covered \cup ((start + LeadingWhitespace(raw))
                                            ..(end - TrailingWhitespace(raw) - 1))
                        ELSE covered
        /\ lastEnd' = end
        /\ start' = NextStart(end, overlap, Len(content), Len(chunks'))
  /\ iterations' = iterations + 1
  /\ UNCHANGED <<cpc, cleanedText, text, chunkSize, overlap, storeVars, selectorVars, scorerVars, fileVars, auxVars>>

\* lines 37 and 82: the loop condition fails and the chunks are returned
splitReturn ==
  /\ cpc = "loop"
  /\ ~(start < Len(cleanedText))
  /\ cpc' = "returned"
  /\ UNCHANGED <<cleanedText, start, index, chunks, lastEnd, covered, iterations>>
  /\ UNCHANGED <<text, chunkSize, overlap, storeVars, selectorVars, scorerVars, fileVars, auxVars>>

\* the overlaps tried: a negative one, zero, and up to MaxOverlap
OverlapArgs == (-1)..MaxOverlap

Split ==
  /\ cpc = "idle"
  /\ \E textArg \in TextsUpTo(MaxTextLen), chunkSizeArg \in 1..MaxChunkSize,
        overlapArg \in OverlapArgs :
       splitCall(textArg, chunkSizeArg, overlapArg)

ChunkerNext ==
  \/ Split
  \/ splitBegin
  \/ splitLoop
  \/ splitReturn

ChunkerSpec == ChunkerInit /\ [][ChunkerNext]_vars

\* ------------------------------------------------------------------------
\* splitTextIntoChunks with its default arguments on a repeated sentence
\* ------------------------------------------------------------------------
\* the 7-character sentence U+6559 U+5E08 U+8BC4 U+8BED U+793A U+4F8B U+3002
ScenarioSentence == <<25945, 24072, 35780, 35821, 31034, 20363, ChCjkFullStop>>

\* the sentence n times over: String.prototype.repeat
Repeat(sentence, n) ==
  [i \in 1..(n * Len(sentence)) |-> sentence[((i - 1) % Len(sentence)) + 1]]

\* the numbers of repetitions tried; 200 gives the 1400-character text
ScenarioRepeats == 1..200

SplitScenario ==
  /\ cpc = "idle"
  /\ \E n \in ScenarioRepeats :
       splitCall(Repeat(ScenarioSentence, n), DEFAULT_CHUNK_SIZE, DEFAULT_CHUNK_OVERLAP)

ScenarioNext ==
  \/ SplitScenario
  \/ splitBegin
  \/ splitLoop
  \/ splitReturn

ScenarioSpec == ChunkerInit /\ [][ScenarioNext]_vars

\* ------------------------------------------------------------------------
\* tokenize and computeScore as a process of their own
\* ------------------------------------------------------------------------
\* U+5206, U+6570, "a", "A", "1", " ", U+3002, U+212A (Kelvin sign),
\* U+0130 (capital I with dot above)
TokenAlphabet ==
  {20998, 25968, 97, 65, 49, ChSpace, ChCjkFullStop, KelvinSign, CapitalIWithDot}
\* U+5206, U+6570, "a"
ScoreAlphabet == {20998, 25968, 97}

TextsOver(alphabet, n) == UNION {[1..k -> alphabet] : k \in 0..n}

\* the queries scored against: none, U+5206, U+5206 U+6570, "aa"
ScoreQueries == { <<>>, <<20998>>, TxtFenShu, <<97, 97>> }

\* the query and the two chunk contents of the scoring scenario
ScenarioQuery == <<20998, 25968, 25945, 23398>>
ScenarioChunkA ==
  <<20170, 22825, 23398, 20064, 20998, 25968, 30340, 35748, 35782, 21644,
    20998, 25968, 21152, 27861>>
ScenarioChunkB == <<20307, 32946, 35838, 28216, 27891, 35757, 32451>>

\* new Set(tokenize(query)), line 98
QueryTermSet(query) == Range(tokenize(query))

ScorerInit ==
  /\ dbUrl = FALSE
  /\ dbUp = FALSE
  /\ dbHandle = Null
  /\ knowledgeChunks = <<>>
  /\ SelectorIdle
  /\ ChunkerIdle
  /\ ScorerIdle
  /\ FilesIdle
  /\ AuxIdle

\* tokenize(text) is called and returns
tokenizeCall(textArg) ==
  /\ spc = "idle"
  /\ tokText' = textArg
  /\ terms' = tokenize(textArg)
  /\ spc' = "tokenized"
  /\ UNCHANGED <<scQuery, scChunkA, scChunkB, scoreA, scoreB, matchedA>>
  /\ UNCHANGED <<storeVars, selectorVars, chunkerVars, fileVars, auxVars>>

\* computeScore is called on two chunk contents with the term set of a query
scoreCall(query, contentA, contentB) ==
  /\ spc = "idle"
  /\ scQuery' = query
  /\ scChunkA' = contentA
  /\ scChunkB' = contentB
  /\ scoreA' = computeScore(QueryTermSet(query), contentA)
  /\ scoreB' = computeScore(QueryTermSet(query), contentB)
  /\ matchedA' = MatchedTerms(QueryTermSet(query), contentA)
  /\ spc' = "scored"
  /\ UNCHANGED <<tokText, terms>>
  /\ UNCHANGED <<storeVars, selectorVars, chunkerVars, fileVars, auxVars>>

Tokenize ==
  /\ spc = "idle"
  /\ \E textArg \in TextsOver(TokenAlphabet, MaxTokenLen) : tokenizeCall(textArg)

ScorePair ==
  /\ spc = "idle"
  /\ \E query \in ScoreQueries, contentA \in TextsOver(ScoreAlphabet, MaxScoreLen),
        contentB \in TextsOver(ScoreAlphabet, MaxScoreLen) :
       scoreCall(query, contentA, contentB)

\* a chunk of 2 terms with 1 match and a chunk of 18 terms with 3 matches:
\* the scores 1 / sqrt(2) and 3 / sqrt(18) are equal reals and different doubles
RoundingQuery == <<97, 98>>
RoundingChunkA == <<97, 98, 32, 121, 121>>
RoundingChunkB == Repeat(<<97, 98, 32>>, 3) \o Repeat(<<121, 121, 32>>, 15)
Scenarios ==
  { <<ScenarioQuery, ScenarioChunkA, ScenarioChunkB>>,
    <<RoundingQuery, RoundingChunkA, RoundingChunkB>> }

ScoreScenario ==
  /\ spc = "idle"
  /\ \E s \in Scenarios : scoreCall(s[1], s[2], s[3])

ScorerNext ==
  \/ Tokenize
  \/ ScorePair
  \/ ScoreScenario

ScorerSpec == ScorerInit /\ [][ScorerNext]_vars

\* ------------------------------------------------------------------------
\* Upload, ingestion and deletion of knowledge files
\* ------------------------------------------------------------------------
UserIds == {1, 2}

NameTxt == <<97>> \o SuffixTxt      \* "a.txt"
NamePdf == <<97>> \o SuffixPdf      \* "a.pdf"
NameDocx == <<97>> \o SuffixDocx    \* "a.docx"
NameMd == <<97>> \o SuffixMd        \* "a.md"
NamePng == <<97, 46, 112, 110, 103>>  \* "a.png"

\* bytes no decoder accepts
Garbage == [pdf |-> Threw, docx |-> Threw, utf8 |-> <<37>>]

\* a text file
TextFile ==
  [fileName |-> NameTxt, mimeType |-> MimeTextPlain,
   buffer |-> [pdf |-> Threw, docx |-> Threw, utf8 |-> TxtAB]]

\* the uploads tried: the text file, a PDF without a MIME type that holds
\* no text, a malformed PDF of the same name, a malformed DOCX, an image, a
\* blank markdown file
Uploads ==
  { TextFile,
    [fileName |-> NamePdf, mimeType |-> <<>>,
     buffer |-> [pdf |-> Returns(<<>>), docx |-> Threw, utf8 |-> <<37>>]],
    [fileName |-> NamePdf, mimeType |-> <<>>, buffer |-> Garbage],
    [fileName |-> NameDocx, mimeType |-> MimeDocx, buffer |-> Garbage],
    [fileName |-> NamePng, mimeType |-> MimeImagePng, buffer |-> Garbage],
    [fileName |-> NameMd, mimeType |-> <<>>,
     buffer |-> [pdf |-> Threw, docx |-> Threw, utf8 |-> <<ChSpace, ChNewline>>]] }

NoText == <<>>          \* a NULL text column
TextOf(t) == <<t>>      \* a text column that holds t

\* the columns an update may set over the columns of the row
MergeRow(row, updates) ==
  [k \in DOMAIN row |-> IF k \in DOMAIN updates THEN updates[k] ELSE row[k]]

FilesInit ==
  /\ dbUrl \in BOOLEAN
  /\ dbUp \in BOOLEAN
  /\ dbHandle = Null
  /\ knowledgeChunks = <<>>
  /\ SelectorIdle
  /\ ChunkerIdle
  /\ ScorerIdle
  /\ FilesIdle
  /\ AuxIdle

\* the database server stops answering, or answers again; DATABASE_URL is
\* part of the environment of the process and stays as it is
serverTurns ==
  /\ pc # "done"
  /\ dbUp' = ~dbUp
  /\ UNCHANGED <<dbUrl, dbHandle, knowledgeChunks>>
  /\ UNCHANGED <<selectorVars, chunkerVars, scorerVars, fileVars, auxVars>>

\* the objects the store may hold
MaxObjects == Cardinality(FileIds)

\* the values of Date.now() tried
Times == 1..Cardinality(FileIds)

\* the key of line 55, knowledge/<userId>/<Date.now()>-<fileName>: two
\* uploads of one user with one file name in one millisecond get one key
FileKey(userId, time, fileName) == <<userId, time, fileName>>

\* storagePut(fileKey, buffer), line 56: the object under the key is the
\* buffer, whatever was there before
storagePut(objects, fileKey, buffer) ==
  [k \in DOMAIN objects \cup {fileKey} |-> IF k = fileKey THEN buffer ELSE objects[k]]

\* knowledge.upload, routers.ts 47-56: the request of userId puts the bytes
\* in the object store under the key of line 55, time being its Date.now();
\* answered says whether storagePut returned (TRUE) or threw, the bucket or
\* the credentials not being configured or the object store not answering
\* (FALSE): the request then throws with nothing stored
upload(userId, input, time, answered) ==
  /\ pc # "done"
  /\ uploading = NoUpload
  /\ RequestsUnderWay < MaxRequests
  /\ nextFileId \in FileIds
  /\ LET fileKey == FileKey(userId, time, input.fileName)
     IN /\ fileKey \in DOMAIN storage \/ Cardinality(DOMAIN storage) < MaxObjects
        /\ IF ~answered
             THEN UNCHANGED <<storage, uploading>>
             ELSE /\ storage' = storagePut(storage, fileKey, input.buffer)
                  /\ uploading' = [step |-> "put", userId |-> userId, fileKey |-> fileKey,
                                   fileId |-> 0, input |-> input]
  /\ UNCHANGED <<knowledgeFiles, nextFileId, tasks, deleting>>
  /\ UNCHANGED <<storeVars, selectorVars, chunkerVars, scorerVars, auxVars>>

\* createKnowledgeFile, db.ts 112-113: getDb, and a throw when there is no
\* handle
createKnowledgeFile ==
  /\ pc # "done"
  /\ uploading.step = "put"
  /\ \E connected \in BOOLEAN :
       LET db == getDb(dbHandle, dbUrl, connected)
       IN /\ dbHandle' = db
          /\ uploading' = IF db = Null THEN NoUpload
                          ELSE [uploading EXCEPT !.step = "insert"]
  /\ UNCHANGED <<knowledgeFiles, nextFileId, storage, tasks, deleting>>
  /\ UNCHANGED <<dbUrl, dbUp, knowledgeChunks>>
  /\ UNCHANGED <<selectorVars, chunkerVars, scorerVars, auxVars>>

\* createKnowledgeFile, db.ts 115-116: the awaited insert, whose row gets
\* the next id and the column defaults (processingStatus pending); it throws
\* when the server does not answer. Nothing else is done for the new file.
insertKnowledgeFile ==
  /\ pc # "done"
  /\ uploading.step = "insert"
  /\ IF ~dbUp
       THEN /\ uploading' = NoUpload   \* throws
            /\ UNCHANGED <<knowledgeFiles, nextFileId>>
       ELSE /\ knowledgeFiles' =
                 (nextFileId :> [userId |-> uploading.userId,
                                 fileName |-> uploading.input.fileName,
                                 fileKey |-> uploading.fileKey,
                                 mimeType |-> uploading.input.mimeType,
                                 textContent |-> NoText, chunkCount |-> 0,
                                 processingStatus |-> "pending",
                                 processingError |-> NoText]) @@ knowledgeFiles
            /\ nextFileId' = nextFileId + 1
            /\ uploading' = [uploading EXCEPT !.step = "created", !.fileId = nextFileId]
  /\ UNCHANGED <<storage, tasks, deleting>>
  /\ UNCHANGED <<storeVars, selectorVars, chunkerVars, scorerVars, auxVars>>

\* the ingestion of the new document is launched when its record has been
\* created, and is not awaited: the upload is answered
launchIngestion ==
  /\ pc # "done"
  /\ uploading.step = "created"
  /\ tasks' = (uploading.fileId :>
                 [step |-> "started", userId |-> uploading.userId,
                  fileKey |-> uploading.fileKey, input |-> uploading.input,
                  decoded |-> FALSE, buffer |-> NoBuffer,
                  outcome |-> Returns(<<>>), chunkCount |-> 0,
                  storeThrew |-> FALSE]) @@ tasks
  /\ uploading' = NoUpload
  /\ UNCHANGED <<knowledgeFiles, nextFileId, storage, deleting>>
  /\ UNCHANGED <<storeVars, selectorVars, chunkerVars, scorerVars, auxVars>>

\* the tasks that have begun and not ended
RunningTasks == {id \in DOMAIN tasks : tasks[id].step \notin {"started", "done"}}

\* the task extracts the text, from the object stored under its key or from
\* the buffer of the upload; decoded says that the bytes reached the
\* extraction rules, buffer which bytes; a thrown error is caught by the task
taskExtract(id) ==
  /\ id \in DOMAIN tasks
  /\ tasks[id].step = "started"
  /\ Cardinality(RunningTasks) < MaxRunning
  /\ \E via \in {"file", "buffer"}, fetchOk \in BOOLEAN :
       LET input == tasks[id].input
           fetched == [ok |-> fetchOk /\ tasks[id].fileKey \in DOMAIN storage,
                       buffer |-> IF tasks[id].fileKey \in DOMAIN storage
                                    THEN storage[tasks[id].fileKey] ELSE NoBuffer]
           extracted == IF via = "file"
                        THEN extractTextFromFile(fetched, input.mimeType, input.fileName)
                        ELSE extractTextFromBuffer(input.buffer, input.mimeType, input.fileName)
       IN tasks' = [tasks EXCEPT ![id] =
                      [@ EXCEPT !.step = IF extracted.threw THEN "caught" ELSE "extracted",
                                !.decoded = (via = "buffer" \/ fetched.ok),
                                !.buffer = IF via = "buffer" THEN input.buffer
                                           ELSE IF fetched.ok THEN fetched.buffer
                                           ELSE NoBuffer,
                                !.outcome = extracted]]
  /\ UNCHANGED <<knowledgeFiles, nextFileId, storage, deleting, uploading>>
  /\ UNCHANGED <<storeVars, selectorVars, chunkerVars, scorerVars, auxVars>>

\* the rows the task makes of the chunks of its text
TaskRows(id, userId, list) ==
  [i \in 1..Len(list) |->
     [knowledgeFileId |-> id, userId |-> userId, chunkIndex |-> list[i].index,
      content |-> list[i].content, charCount |-> list[i].charCount]]

\* the rows of the task of id: its text chunked with the default size and
\* overlap
RowsOfTask(id) ==
  TaskRows(id, tasks[id].userId,
           splitTextIntoChunks(tasks[id].outcome.text, DEFAULT_CHUNK_SIZE,
                               DEFAULT_CHUNK_OVERLAP))

\* the position of a task whose store call threw: the task catches the error
StoreThrew(task) == [task EXCEPT !.step = "caught", !.storeThrew = TRUE]

\* A task that takes a text without chunks for an error.
taskStoreNeedingChunks(id) ==
  /\ id \in DOMAIN tasks
  /\ tasks[id].step = "extracted"
  /\ tasks' = [tasks EXCEPT ![id] =
                 [@ EXCEPT !.step = IF Len(RowsOfTask(id)) = 0 THEN "caught" ELSE "stored",
                           !.chunkCount = 0]]
  /\ UNCHANGED <<knowledgeFiles, nextFileId, storage, deleting, uploading>>
  /\ UNCHANGED <<storeVars, selectorVars, chunkerVars, scorerVars, auxVars>>

\* the task chunks the text and calls createKnowledgeChunks (db.ts 160-162),
\* which returns for no chunks, else awaits getDb and throws without a handle
taskStore(id) ==
  /\ id \in DOMAIN tasks
  /\ tasks[id].step = "extracted"
  /\ LET rows == RowsOfTask(id)
     IN IF Len(rows) = 0
          THEN /\ tasks' = [tasks EXCEPT ![id] = [@ EXCEPT !.step = "stored",
                                                           !.chunkCount = 0]]
               /\ UNCHANGED dbHandle
          ELSE \E connected \in BOOLEAN :
                 LET db == getDb(dbHandle, dbUrl, connected)
                 IN /\ dbHandle' = db
                    /\ tasks' = [tasks EXCEPT ![id] =
                                   IF db = Null
                                     THEN StoreThrew([@ EXCEPT !.chunkCount = Len(rows)])
                                     ELSE [@ EXCEPT !.step = "storing",
                                                    !.chunkCount = Len(rows)]]
  /\ UNCHANGED <<knowledgeFiles, nextFileId, storage, deleting, uploading>>
  /\ UNCHANGED <<dbUrl, dbUp, knowledgeChunks>>
  /\ UNCHANGED <<selectorVars, chunkerVars, scorerVars, auxVars>>

\* createKnowledgeChunks, db.ts 164: the awaited insert of the task's rows
taskInsert(id) ==
  /\ pc # "done"
  /\ id \in DOMAIN tasks
  /\ tasks[id].step = "storing"
  /\ Len(knowledgeChunks) + Len(RowsOfTask(id)) <= MaxRows
  /\ knowledgeChunks' =
       IF ~dbUp THEN knowledgeChunks ELSE insertValues(knowledgeChunks, RowsOfTask(id))
  /\ tasks' = [tasks EXCEPT ![id] =
                 IF ~dbUp THEN StoreThrew(@) ELSE [@ EXCEPT !.step = "stored"]]
  /\ UNCHANGED <<knowledgeFiles, nextFileId, storage, deleting, uploading>>
  /\ UNCHANGED <<dbUrl, dbUp, dbHandle>>
  /\ UNCHANGED <<selectorVars, chunkerVars, scorerVars, auxVars>>

\* updateKnowledgeFile(id, updates), db.ts 152-153: getDb, and a throw when
\* there is no handle; pending and failed are the positions the calling
\* task takes when the call goes on to its statement and when it throws
updateKnowledgeFile(id, pending, failed) ==
  /\ \E connected \in BOOLEAN :
       LET db == getDb(dbHandle, dbUrl, connected)
       IN /\ dbHandle' = db
          /\ tasks' = [tasks EXCEPT ![id] =
                         IF db = Null
                           THEN [@ EXCEPT !.step = failed, !.storeThrew = TRUE]
                           ELSE [@ EXCEPT !.step = pending]]
  /\ UNCHANGED <<knowledgeFiles, nextFileId, storage, deleting, uploading>>
  /\ UNCHANGED <<dbUrl, dbUp, knowledgeChunks>>
  /\ UNCHANGED <<selectorVars, chunkerVars, scorerVars, auxVars>>

\* updateKnowledgeFile, db.ts 155: the awaited update of the row of id with
\* the columns of updates; next and failed are the positions the calling
\* task takes when the call returns and when it throws
setKnowledgeFile(id, updates, next, failed) ==
  /\ pc # "done"
  /\ IF ~dbUp
       THEN /\ UNCHANGED knowledgeFiles   \* throws
            /\ tasks' = [tasks EXCEPT ![id] =
                           [@ EXCEPT !.step = failed, !.storeThrew = TRUE]]
       ELSE /\ knowledgeFiles' =
                 [f \in DOMAIN knowledgeFiles |->
                    IF f = id THEN MergeRow(knowledgeFiles[f], updates)
                    ELSE knowledgeFiles[f]]
            /\ tasks' = [tasks EXCEPT ![id] = [@ EXCEPT !.step = next]]
  /\ UNCHANGED <<nextFileId, storage, deleting, uploading>>
  /\ UNCHANGED <<storeVars, selectorVars, chunkerVars, scorerVars, auxVars>>

\* the task records the text and the number of chunks
taskComplete(id) ==
  /\ id \in DOMAIN tasks
  /\ tasks[id].step = "stored"
  /\ updateKnowledgeFile(id, "completing", "caught")

taskCompleteSet(id) ==
  /\ id \in DOMAIN tasks
  /\ tasks[id].step = "completing"
  /\ setKnowledgeFile(id, [processingStatus |-> "completed",
                           textContent |-> TextOf(tasks[id].outcome.text),
                           chunkCount |-> tasks[id].chunkCount],
                      "done", "caught")

\* the task records the error it caught; an error of this update is not caught
taskFail(id) ==
  /\ id \in DOMAIN tasks
  /\ tasks[id].step = "caught"
  /\ updateKnowledgeFile(id, "failing", "done")

\* A task that records a caught error as a completed ingestion.
taskFailSetCompleted(id) ==
  /\ id \in DOMAIN tasks
  /\ tasks[id].step = "failing"
  /\ setKnowledgeFile(id, [processingStatus |-> "completed",
                           processingError |-> TextOf("error")],
                      "done", "done")

taskFailSet(id) ==
  /\ id \in DOMAIN tasks
  /\ tasks[id].step = "failing"
  /\ setKnowledgeFile(id, [processingStatus |-> "failed",
                           processingError |-> TextOf("error")],
                      "done", "done")

\* deleteKnowledgeFile(id, userId), db.ts 127-128: getDb, and a throw when
\* there is no handle
deleteKnowledgeFile(id, userId) ==
  /\ pc # "done"
  /\ deleting = NoDelete
  /\ RequestsUnderWay < MaxRequests
  /\ \E connected \in BOOLEAN :
       LET db == getDb(dbHandle, dbUrl, connected)
       IN /\ dbHandle' = db
          /\ deleting' = IF db = Null THEN NoDelete
                         ELSE [active |-> TRUE, step |-> "chunks", id |-> id,
                               userId |-> userId]
  /\ UNCHANGED <<knowledgeFiles, nextFileId, storage, tasks, uploading>>
  /\ UNCHANGED <<dbUrl, dbUp, knowledgeChunks>>
  /\ UNCHANGED <<selectorVars, chunkerVars, scorerVars, auxVars>>

\* deleteKnowledgeFile, db.ts 131: the awaited delete of the chunks of the
\* file
deleteKnowledgeFileChunks ==
  /\ pc # "done"
  /\ deleting.step = "chunks"
  /\ IF ~dbUp
       THEN /\ UNCHANGED knowledgeChunks   \* throws
            /\ deleting' = NoDelete
       ELSE /\ knowledgeChunks' = deleteWhereFileId(knowledgeChunks, deleting.id)
            /\ deleting' = [deleting EXCEPT !.step = "row"]
  /\ UNCHANGED <<knowledgeFiles, nextFileId, storage, tasks, uploading>>
  /\ UNCHANGED <<dbUrl, dbUp, dbHandle>>
  /\ UNCHANGED <<selectorVars, chunkerVars, scorerVars, auxVars>>

\* deleteKnowledgeFile, db.ts 132: the awaited delete of the row of the
\* file, when it is the caller's
deleteKnowledgeFileRow ==
  /\ pc # "done"
  /\ deleting.step = "row"
  /\ knowledgeFiles' =
       IF ~dbUp THEN knowledgeFiles   \* throws
       ELSE [f \in {g \in DOMAIN knowledgeFiles :
                      ~(g = deleting.id /\ knowledgeFiles[g].userId = deleting.userId)} |->
               knowledgeFiles[f]]
  /\ deleting' = NoDelete
  /\ UNCHANGED <<storeVars, nextFileId, storage, tasks, uploading>>
  /\ UNCHANGED <<selectorVars, chunkerVars, scorerVars, auxVars>>

\* Date.now() is the time of an earlier upload or a later one: the times
\* are numbered in the order of their first use
TimesNow == {time \in Times : time <= Cardinality(DOMAIN storage) + 1}

\* an upload of the text file
Upload ==
  /\ pc # "done"
  /\ nextFileId \in FileIds
  /\ \E time \in TimesNow, answered \in BOOLEAN :
       upload(OwnerOf(nextFileId), TextFile, time, answered)

\* an upload of any of the sample files
UploadSample ==
  /\ nextFileId \in FileIds
  /\ \E input \in Uploads, time \in TimesNow, answered \in BOOLEAN :
       upload(OwnerOf(nextFileId), input, time, answered)

TaskExtract == \E id \in FileIds : taskExtract(id)
TaskStore == \E id \in FileIds : taskStore(id)
TaskInsert == \E id \in FileIds : taskInsert(id)
TaskComplete == \E id \in FileIds : taskComplete(id)
TaskCompleteSet == \E id \in FileIds : taskCompleteSet(id)
TaskFail == \E id \in FileIds : taskFail(id)
TaskFailSet == \E id \in FileIds : taskFailSet(id)

DeleteFile ==
  /\ pc # "done"
  /\ deleting = NoDelete
  /\ \E id \in FileIds, userId \in UserIds : deleteKnowledgeFile(id, userId)

\* one call of deleteKnowledgeChunksByFileId at a time beside the uploads,
\* the tasks and the file deletes
DeleteChunksOfFile ==
  /\ pc # "done"
  /\ RequestsUnderWay < MaxRequests
  /\ \E fileId \in FileIds : deleteKnowledgeChunksByFileId(1, fileId)
  /\ UNCHANGED fileVars

\* a generation request retrieves from the files uploaded so far
RetrieveFromFiles ==
  /\ pc = "idle"
  /\ RequestsUnderWay < MaxRequests
  /\ retrieveRelevantChunks(<<1, 2>>, TxtAB, <<TxtAB>>, MaxChunksArg, MaxCharsArg)

FilesNext ==
  \/ Upload
  \/ createKnowledgeFile
  \/ insertKnowledgeFile
  \/ launchIngestion
  \/ TaskExtract
  \/ TaskStore
  \/ TaskInsert
  \/ TaskComplete
  \/ TaskCompleteSet
  \/ TaskFail
  \/ TaskFailSet
  \/ DeleteFile
  \/ deleteKnowledgeFileChunks
  \/ deleteKnowledgeFileRow
  \/ DeleteChunksOfFile
  \/ DeleteChunksRun
  \/ RetrieveFromFiles
  \/ selectKnowledgeChunks
  \/ TakeResult
  \/ serverTurns

FilesSpec == FilesInit /\ [][FilesNext]_vars

\* uploads of the sample files and their ingestions, beside outages of the
\* database server
IngestionNext ==
  \/ UploadSample
  \/ createKnowledgeFile
  \/ insertKnowledgeFile
  \/ launchIngestion
  \/ TaskExtract
  \/ TaskStore
  \/ TaskInsert
  \/ TaskComplete
  \/ TaskCompleteSet
  \/ TaskFail
  \/ TaskFailSet
  \/ serverTurns

IngestionSpec == FilesInit /\ [][IngestionNext]_vars

\* ------------------------------------------------------------------------
\* splitTextIntoChunks on windows with paragraph breaks and sentence marks
\* ------------------------------------------------------------------------
\* "a", newline, U+3002, ".", " "
CutAlphabet == {97, ChNewline, ChCjkFullStop, ChFullStop, ChSpace}
\* a text one character longer than the window, so that the first window
\* ends before the end of the text
CutTexts == [1..6 -> CutAlphabet]
CutChunkSizes == {5}

SplitCut ==
  /\ cpc = "idle"
  /\ \E textArg \in CutTexts, chunkSizeArg \in CutChunkSizes :
       splitCall(textArg, chunkSizeArg, 0)

CutNext ==
  \/ SplitCut
  \/ splitBegin
  \/ splitLoop
  \/ splitReturn

CutSpec == ChunkerInit /\ [][CutNext]_vars

\* ------------------------------------------------------------------------
\* extractTextFromBuffer and extractTextFromFile as a process of their own
\* ------------------------------------------------------------------------
NameDoc == <<97>> \o SuffixDoc               \* "a.doc"
NameUpperPdf == <<65, 46, 80, 68, 70>>       \* "A.PDF"
NameNoDot == <<112, 100, 102>>               \* "pdf"

ExtractMimeTypes ==
  {MimePdf, MimeDocx, MimeDoc, MimeTextPlain, MimeTextMarkdown, MimeTextHtml,
   PrefixText, MimeImagePng, MimeOctetStream, <<>>}
ExtractFileNames ==
  {NameTxt, NamePdf, NameDocx, NameDoc, NameMd, NamePng, NameUpperPdf, NameNoDot, <<>>}

\* bytes of which every decoder makes a different text: "P", "D", "U"
Polyglot == [pdf |-> Returns(<<80>>), docx |-> Returns(<<68>>), utf8 |-> <<85>>]
ExtractBuffers ==
  { Garbage, Polyglot,
    [pdf |-> Threw, docx |-> Returns(<<68>>), utf8 |-> <<85>>],
    [pdf |-> Returns(<<>>), docx |-> Threw, utf8 |-> <<>>] }

ExtractorInit ==
  /\ dbUrl = FALSE
  /\ dbUp = FALSE
  /\ dbHandle = Null
  /\ knowledgeChunks = <<>>
  /\ SelectorIdle
  /\ ChunkerIdle
  /\ ScorerIdle
  /\ FilesIdle
  /\ AuxIdle

\* both extractors are called on the same bytes, MIME type and file name;
\* fetchOk says whether fetchFileFromS3 returns the bytes or throws
extractCall(buffer, mimeType, fileName, fetchOk) ==
  /\ xpc = "idle"
  /\ xpc' = "extracted"
  /\ xCall' = [buffer |-> buffer, mimeType |-> mimeType, fileName |-> fileName,
               fetchOk |-> fetchOk]
  /\ xFromBuffer' = extractTextFromBuffer(buffer, mimeType, fileName)
  /\ xFromFile' = extractTextFromFile([ok |-> fetchOk, buffer |-> buffer], mimeType, fileName)
  /\ UNCHANGED <<storeVars, selectorVars, chunkerVars, scorerVars, fileVars>>
  /\ UNCHANGED <<formatterVars, templateVars, callVars>>

\* the caller takes the outcomes
extractDone ==
  /\ xpc = "extracted"
  /\ xpc' = "idle"
  /\ xCall' = [buffer |-> NoBuffer, mimeType |-> <<>>, fileName |-> <<>>, fetchOk |-> FALSE]
  /\ xFromBuffer' = Returns(<<>>)
  /\ xFromFile' = Returns(<<>>)
  /\ UNCHANGED <<storeVars, selectorVars, chunkerVars, scorerVars, fileVars>>
  /\ UNCHANGED <<formatterVars, templateVars, callVars>>

Extract ==
  /\ xpc = "idle"
  /\ \E buffer \in ExtractBuffers, mimeType \in ExtractMimeTypes,
        fileName \in ExtractFileNames, fetchOk \in BOOLEAN :
       extractCall(buffer, mimeType, fileName, fetchOk)

ExtractorNext ==
  \/ Extract
  \/ extractDone

ExtractorSpec == ExtractorInit /\ [][ExtractorNext]_vars

\* ------------------------------------------------------------------------
\* formatRetrievalContext
\* ------------------------------------------------------------------------
\* the opening sentence of the returned text, with its two newlines
ContextIntro ==
  <<20197, 19979, 26159, 20174, 25945, 24072, 19978, 20256, 30340, 30693, 35782,
    24211, 25991, 20214, 20013, 26816, 32034, 21040, 30340, 30456, 20851, 20869,
    23481, 65292, 35831, 22312, 29983, 25104, 26102, 21442, 32771, 36825, 20123,
    26448, 26009, 65306, 10, 10>>
ChOpenBracket == 12304
\* the header of a section: U+3010 and four characters and a full-width
\* colon, the file name, U+3011 and a newline
HeaderOpen == <<ChOpenBracket, 21442, 32771, 36164, 26009, 65306>>
HeaderClose == <<12305, 10>>
ChunkSeparator == <<10, 10>>
SectionSeparator == <<10, 10, 45, 45, 45, 10, 10>>

NameConstructor == <<99, 111, 110, 115, 116, 114, 117, 99, 116, 111, 114>>
\* the property names that the object literal {} of byFile inherits from
\* Object.prototype: byFile[key] is truthy for them before any assignment
ObjectPrototypeKeys ==
  { NameConstructor,
    <<116, 111, 83, 116, 114, 105, 110, 103>>,
    <<118, 97, 108, 117, 101, 79, 102>>,
    <<104, 97, 115, 79, 119, 110, 80, 114, 111, 112, 101, 114, 116, 121>>,
    <<105, 115, 80, 114, 111, 116, 111, 116, 121, 112, 101, 79, 102>>,
    <<112, 114, 111, 112, 101, 114, 116, 121, 73, 115, 69, 110, 117, 109, 101, 114,
      97, 98, 108, 101>>,
    <<116, 111, 76, 111, 99, 97, 108, 101, 83, 116, 114, 105, 110, 103>>,
    <<95, 95, 112, 114, 111, 116, 111, 95, 95>>,
    <<95, 95, 100, 101, 102, 105, 110, 101, 71, 101, 116, 116, 101, 114, 95, 95>>,
    <<95, 95, 100, 101, 102, 105, 110, 101, 83, 101, 116, 116, 101, 114, 95, 95>>,
    <<95, 95, 108, 111, 111, 107, 117, 112, 71, 101, 116, 116, 101, 114, 95, 95>>,
    <<95, 95, 108, 111, 111, 107, 117, 112, 83, 101, 116, 116, 101, 114, 95, 95>> }

\* the keys of byFile in the order of their first assignment
RECURSIVE InsertionKeys(_)
InsertionKeys(retrieved) ==
  IF retrieved = <<>> THEN <<>>
  ELSE LET front == InsertionKeys(SubSeq(retrieved, 1, Len(retrieved) - 1))
           key == retrieved[Len(retrieved)].fileName
       IN IF \E i \in 1..Len(front) : front[i] = key THEN front ELSE Append(front, key)

\* the digits of 2^32 - 2, the largest array index: "4294967294"
MaxIndexKey == <<52, 50, 57, 52, 57, 54, 55, 50, 57, 52>>

\* the number written a is at most the number written b, for canonical
\* decimal numerals: the shorter is the smaller, and of two of one length
\* the one with the smaller digit at the first position where they differ
NumeralAtMost(a, b) ==
  \/ Len(a) < Len(b)
  \/ /\ Len(a) = Len(b)
     /\ \/ a = b
        \/ \E i \in 1..Len(a) :
             /\ a[i] < b[i]
             /\ \A j \in 1..(i - 1) : a[j] = b[j]

\* a key that is a canonical array index: a decimal numeral without a
\* leading zero ("0", "7", "12") of a number up to 2^32 - 2
IsIndexKey(key) ==
  /\ Len(key) >= 1
  /\ \A i \in 1..Len(key) : IsDigit(key[i])
  /\ (Len(key) = 1 \/ key[1] # 48)
  /\ NumeralAtMost(key, MaxIndexKey)

RECURSIVE InsertIndexKey(_, _)
InsertIndexKey(sorted, key) ==
  IF sorted = <<>> THEN <<key>>
  ELSE IF NumeralAtMost(sorted[Len(sorted)], key) THEN Append(sorted, key)
  ELSE Append(InsertIndexKey(SubSeq(sorted, 1, Len(sorted) - 1), key), sorted[Len(sorted)])

RECURSIVE AscendingIndexKeys(_)
AscendingIndexKeys(keys) ==
  IF keys = <<>> THEN <<>>
  ELSE InsertIndexKey(AscendingIndexKeys(SubSeq(keys, 1, Len(keys) - 1)), keys[Len(keys)])

\* Object.keys(byFile): the array-index keys in ascending numeric order, then
\* the other keys in the order of their insertion
ByFileKeys(retrieved) ==
  LET keys == InsertionKeys(retrieved)
  IN AscendingIndexKeys(SelectSeq(keys, IsIndexKey))
       \o SelectSeq(keys, LAMBDA k : ~IsIndexKey(k))

\* Array.prototype.join on texts
RECURSIVE Join(_, _)
Join(texts, separator) ==
  IF texts = <<>> THEN <<>>
  ELSE IF Len(texts) = 1 THEN texts[1]
  ELSE Join(SubSeq(texts, 1, Len(texts) - 1), separator) \o separator \o texts[Len(texts)]

\* one element of sections: the header of fileName and the contents of
\* byFile[fileName] sorted by chunk index
SectionText(retrieved, fileName) ==
  LET fileChunks == SortByChunkIndex(SelectSeq(retrieved, LAMBDA c : c.fileName = fileName))
  IN HeaderOpen \o fileName \o HeaderClose
       \o Join([i \in 1..Len(fileChunks) |-> fileChunks[i].content], ChunkSeparator)

\* formatRetrievalContext(chunks); for a file name that is a property of
\* Object.prototype, byFile[key] is not an array and byFile[key].push throws
formatRetrievalContext(retrieved) ==
  IF retrieved = <<>> THEN Returns(<<>>)
  ELSE IF \E i \in 1..Len(retrieved) : retrieved[i].fileName \in ObjectPrototypeKeys THEN Threw
  ELSE LET keys == ByFileKeys(retrieved)
       IN Returns(ContextIntro
                    \o Join([k \in 1..Len(keys) |-> SectionText(retrieved, keys[k])],
                            SectionSeparator))

\* the documents chunks are retrieved from, and the display names passed for
\* them: documents 1 and 2 have the same name, 3 and 4 none, 6 and 7 a
\* number ("7", "1000000000")
NameTenDigits == <<49, 48, 48, 48, 48, 48, 48, 48, 48, 48>>
FormatFileIds == 1..7
FormatFileNameMap ==
  (1 :> <<97>>) @@ (2 :> <<97>>) @@ (5 :> NameConstructor) @@ (6 :> <<55>>)
    @@ (7 :> NameTenDigits)
FormatChunkIndexes == {0, 1}
\* the RetrievedChunk of a document and a chunk index; every content is one
\* capital letter of its own ("A" to "N"), found in no header
FormatChunk(fileId, chunkIndex) ==
  [fileId |-> fileId,
   fileName |-> FileNameOf(FormatFileNameMap, fileId),
   chunkIndex |-> chunkIndex,
   content |-> <<65 + 2 * (fileId - 1) + chunkIndex>>,
   score |-> ZeroScore]
FormatChunkSet ==
  {FormatChunk(fileId, chunkIndex) : fileId \in FormatFileIds, chunkIndex \in FormatChunkIndexes}
MaxFormatLen == 3
\* the lists of at most MaxFormatLen different chunks, in any order
FormatInputs ==
  {l \in UNION {[1..n -> FormatChunkSet] : n \in 0..MaxFormatLen} :
     \A i, j \in 1..Len(l) : i < j => l[i] # l[j]}

FormatterInit ==
  /\ dbUrl = FALSE
  /\ dbUp = FALSE
  /\ dbHandle = Null
  /\ knowledgeChunks = <<>>
  /\ SelectorIdle
  /\ ChunkerIdle
  /\ ScorerIdle
  /\ FilesIdle
  /\ AuxIdle

formatCall(retrieved) ==
  /\ fpc = "idle"
  /\ fpc' = "formatted"
  /\ fChunks' = retrieved
  /\ fOut' = formatRetrievalContext(retrieved)
  /\ UNCHANGED <<storeVars, selectorVars, chunkerVars, scorerVars, fileVars>>
  /\ UNCHANGED <<extractorVars, templateVars, callVars>>

Format ==
  /\ fpc = "idle"
  /\ \E retrieved \in FormatInputs : formatCall(retrieved)

\* the caller takes the text
formatDone ==
  /\ fpc = "formatted"
  /\ fpc' = "idle"
  /\ fChunks' = <<>>
  /\ fOut' = Returns(<<>>)
  /\ UNCHANGED <<storeVars, selectorVars, chunkerVars, scorerVars, fileVars>>
  /\ UNCHANGED <<extractorVars, templateVars, callVars>>

FormatterNext ==
  \/ Format
  \/ formatDone

FormatterSpec == FormatterInit /\ [][FormatterNext]_vars

\* ------------------------------------------------------------------------
\* incrementTemplateUsage
\* ------------------------------------------------------------------------
\* the calls made in one run
MaxIncrements == 3

TemplatesInit ==
  /\ dbUrl \in BOOLEAN
  /\ dbUp \in BOOLEAN
  /\ dbHandle = Null
  /\ knowledgeChunks = <<>>
  /\ SelectorIdle
  /\ ChunkerIdle
  /\ ScorerIdle
  /\ FilesIdle
  /\ AuxIdle

\* the calls that have returned or thrown, and the calls under way
RECURSIVE SumOver(_, _)
SumOver(f, S) ==
  IF S = {} THEN 0
  ELSE LET x == CHOOSE y \in S : TRUE IN f[x] + SumOver(f, S \ {x})
CallsUnderWay ==
  Cardinality({c \in CallerIds : incCalls[c].step \in {"started", "selecting", "read"}})
CallsMade == SumOver(incReturned, IncrementIds) + CallsUnderWay

\* db.select().from(resourceTemplates).where(eq(id)).limit(1) and line 270:
\* the row of id, or undefined
selectTemplate(table, id) ==
  IF id \in DOMAIN table
    THEN [found |-> TRUE, usageCount |-> table[id].usageCount]
    ELSE NoTemplate

\* incrementTemplateUsage(id), lines 274-275: the call of caller c obtains
\* the handle, or throws when there is none
incrementBegin(c, id) ==
  /\ incCalls[c].step = "idle"
  /\ \E connected \in BOOLEAN :
       LET db == getDb(dbHandle, dbUrl, connected)
       IN /\ dbHandle' = db
          /\ incCalls' =
               IF db = Null THEN incCalls
               ELSE [incCalls EXCEPT ![c] = [step |-> "started", id |-> id, userId |-> 0,
                                             template |-> NoTemplate]]
  /\ UNCHANGED <<dbUrl, dbUp, knowledgeChunks, resourceTemplates, incReturned, nextTemplateId>>
  /\ UNCHANGED <<selectorVars, chunkerVars, scorerVars, fileVars>>
  /\ UNCHANGED <<extractorVars, formatterVars, callVars>>

\* getTemplateById(id), db.ts 266-267, called at line 277 by the call of
\* caller c: getDb, and the return of undefined when there is no handle
getTemplateById(c) ==
  /\ incCalls[c].step = "started"
  /\ \E connected \in BOOLEAN :
       LET db == getDb(dbHandle, dbUrl, connected)
       IN /\ dbHandle' = db
          /\ incCalls' = [incCalls EXCEPT ![c].step = IF db = Null THEN "read" ELSE "selecting",
                                          ![c].template = NoTemplate]
  /\ UNCHANGED <<dbUrl, dbUp, knowledgeChunks, resourceTemplates, incReturned, nextTemplateId>>
  /\ UNCHANGED <<selectorVars, chunkerVars, scorerVars, fileVars>>
  /\ UNCHANGED <<extractorVars, formatterVars, callVars>>

\* getTemplateById, db.ts 269-270: the awaited select; when the server does
\* not answer it rejects and incrementTemplateUsage throws
incrementRead(c) ==
  /\ incCalls[c].step = "selecting"
  /\ incCalls' =
       IF ~dbUp THEN [incCalls EXCEPT ![c] = NoIncrement]
       ELSE [incCalls EXCEPT ![c].step = "read",
                             ![c].template = selectTemplate(resourceTemplates, incCalls[c].id)]
  /\ UNCHANGED <<storeVars, resourceTemplates, incReturned, nextTemplateId>>
  /\ UNCHANGED <<selectorVars, chunkerVars, scorerVars, fileVars>>
  /\ UNCHANGED <<extractorVars, formatterVars, callVars>>

\* lines 278-280: when a template was read, the awaited update sets
\* usageCount to the count read plus one; then the call returns. The call
\* throws when the server does not answer the update.
incrementWrite(c) ==
  /\ incCalls[c].step = "read"
  /\ LET id == incCalls[c].id
         template == incCalls[c].template
         threw == template.found /\ ~dbUp
     IN /\ resourceTemplates' =
             IF template.found /\ ~threw /\ id \in DOMAIN resourceTemplates
               THEN [resourceTemplates EXCEPT ![id].usageCount = template.usageCount + 1]
               ELSE resourceTemplates
        /\ incReturned' =
             IF ~threw THEN [incReturned EXCEPT ![id] = @ + 1]
             ELSE incReturned
  /\ incCalls' = [incCalls EXCEPT ![c] = NoIncrement]
  /\ UNCHANGED <<storeVars, nextTemplateId>>
  /\ UNCHANGED <<selectorVars, chunkerVars, scorerVars, fileVars>>
  /\ UNCHANGED <<extractorVars, formatterVars, callVars>>

\* the creations and deletions of templates that have begun and not ended
TemplateRequestsUnderWay ==
  Cardinality({c \in CallerIds : incCalls[c].step \in {"inserting", "deleting"}})

\* createTemplate(template), db.ts 251-252, called by templates.upload
\* (routers.ts 357) for userId: getDb, and a throw when there is no handle
createTemplate(c, userId) ==
  /\ incCalls[c].step = "idle"
  /\ nextTemplateId \in IncrementIds
  /\ TemplateRequestsUnderWay < MaxRequests
  /\ \E connected \in BOOLEAN :
       LET db == getDb(dbHandle, dbUrl, connected)
       IN /\ dbHandle' = db
          /\ incCalls' =
               IF db = Null THEN incCalls
               ELSE [incCalls EXCEPT ![c] = [step |-> "inserting", id |-> 0,
                                             userId |-> userId, template |-> NoTemplate]]
  /\ UNCHANGED <<dbUrl, dbUp, knowledgeChunks, resourceTemplates, incReturned, nextTemplateId>>
  /\ UNCHANGED <<selectorVars, chunkerVars, scorerVars, fileVars>>
  /\ UNCHANGED <<extractorVars, formatterVars, callVars>>

\* createTemplate, db.ts 254: the awaited insert, whose row gets the next id,
\* usageCount 0 and createdBy the user of the call (routers.ts 366); it
\* throws when the server does not answer
insertTemplate(c) ==
  /\ incCalls[c].step = "inserting"
  /\ IF ~dbUp
       THEN UNCHANGED <<resourceTemplates, nextTemplateId>>   \* throws
       ELSE /\ resourceTemplates' =
              (nextTemplateId :> [usageCount |-> 0, createdBy |-> incCalls[c].userId])
                @@ resourceTemplates
            /\ nextTemplateId' = nextTemplateId + 1
  /\ incCalls' = [incCalls EXCEPT ![c] = NoIncrement]
  /\ UNCHANGED <<storeVars, incReturned>>
  /\ UNCHANGED <<selectorVars, chunkerVars, scorerVars, fileVars>>
  /\ UNCHANGED <<extractorVars, formatterVars, callVars>>

\* deleteTemplate(id, userId), db.ts 259-260, called by templates.delete
\* (routers.ts 375): getDb, and a throw when there is no handle
deleteTemplate(c, id, userId) ==
  /\ incCalls[c].step = "idle"
  /\ TemplateRequestsUnderWay < MaxRequests
  /\ \E connected \in BOOLEAN :
       LET db == getDb(dbHandle, dbUrl, connected)
       IN /\ dbHandle' = db
          /\ incCalls' =
               IF db = Null THEN incCalls
               ELSE [incCalls EXCEPT ![c] = [step |-> "deleting", id |-> id,
                                             userId |-> userId, template |-> NoTemplate]]
  /\ UNCHANGED <<dbUrl, dbUp, knowledgeChunks, resourceTemplates, incReturned, nextTemplateId>>
  /\ UNCHANGED <<selectorVars, chunkerVars, scorerVars, fileVars>>
  /\ UNCHANGED <<extractorVars, formatterVars, callVars>>

\* deleteTemplate, db.ts 262: the awaited delete of the row of id when
\* userId created it; it throws when the server does not answer
deleteTemplateRow(c) ==
  /\ incCalls[c].step = "deleting"
  /\ resourceTemplates' =
       IF ~dbUp THEN resourceTemplates
       ELSE [t \in {u \in DOMAIN resourceTemplates :
                      ~(u = incCalls[c].id
                        /\ resourceTemplates[u].createdBy = incCalls[c].userId)} |->
               resourceTemplates[t]]
  /\ incCalls' = [incCalls EXCEPT ![c] = NoIncrement]
  /\ UNCHANGED <<storeVars, incReturned, nextTemplateId>>
  /\ UNCHANGED <<selectorVars, chunkerVars, scorerVars, fileVars>>
  /\ UNCHANGED <<extractorVars, formatterVars, callVars>>

\* templates.incrementUsage, routers.ts 385-390: any signed-in user
IncrementUsage ==
  /\ CallsMade < MaxIncrements
  /\ \E c \in CallerIds, id \in IncrementIds : incrementBegin(c, id)

GetTemplate == \E c \in CallerIds : getTemplateById(c)
IncrementRead == \E c \in CallerIds : incrementRead(c)
IncrementWrite == \E c \in CallerIds : incrementWrite(c)

\* templates.upload, routers.ts 346-370: the template is created by the caller
CreateTemplate == \E c \in CallerIds, userId \in UserIds : createTemplate(c, userId)
InsertTemplate == \E c \in CallerIds : insertTemplate(c)
\* templates.delete, routers.ts 372-377: any signed-in user, any id
DeleteTemplate ==
  \E c \in CallerIds, id \in IncrementIds, userId \in UserIds : deleteTemplate(c, id, userId)
DeleteTemplateRow == \E c \in CallerIds : deleteTemplateRow(c)

TemplatesNext ==
  \/ IncrementUsage
  \/ GetTemplate
  \/ IncrementRead
  \/ IncrementWrite
  \/ CreateTemplate
  \/ InsertTemplate
  \/ DeleteTemplate
  \/ DeleteTemplateRow
  \/ serverTurns

TemplatesSpec == TemplatesInit /\ [][TemplatesNext]_vars

\* ------------------------------------------------------------------------
\* Properties of retrieveRelevantChunks
\* ------------------------------------------------------------------------
RECURSIVE SumChars(_)
SumChars(list) ==
  IF list = <<>> THEN 0
  ELSE Len(list[1].content) + SumChars(Tail(list))

\* the query terms of the finished call and the score of one fetched row
CallQueryTerms == Range(tokenize(call.query))
RowScore(row) == computeScore(CallQueryTerms, row.content)
SomeRowScoresPositive == \E i \in 1..Len(allChunks) : ~ScoreIsZero(RowScore(allChunks[i]))
Returned == pc = "done" /\ outcome = "returned"

\* the rows of the call's documents in the order the table holds them
TableOrderRows ==
  SelectSeq(knowledgeChunks, LAMBDA r : r.knowledgeFileId \in Range(call.knowledgeFileIds))

\* C1: the contents of the returned chunks never add up to more than
\* maxChars characters, whether the accept loop or the fallback built the list.
C1_CharBudget == Returned => SumChars(result) <= call.maxChars

\* a ranked result that a positive-scored chunk was kept out of by the budget
C1_Witness ==
  /\ Returned
  /\ Len(result) > 0
  /\ ~ScoreIsZero(result[1].score)
  /\ Len(result) < call.maxChunks
  /\ \E i \in 1..Len(allChunks) :
       /\ ~ScoreIsZero(RowScore(allChunks[i]))
       /\ \A j \in 1..Len(result) :
            <<result[j].fileId, result[j].chunkIndex>> #
              <<allChunks[i].knowledgeFileId, allChunks[i].chunkIndex>>

\* C2: the returned list never has more than maxChunks chunks, on the ranked
\* path and on the fallback path.
C2_ChunkCount == Returned => Len(result) <= call.maxChunks

\* the sample the fallback takes: per document, in the order of
\* Object.keys(byFile), the first three chunks by index with score 0, within
\* the character budget
FallbackSample ==
  FallbackFiles(allChunks, ObjectKeys(allChunks), 1,
                [selected |-> <<>>, totalChars |-> 0],
                call.fileNameMap, call.maxChars).selected

\* C3: when rows were fetched and none of them scores above zero, the
\* returned list is the fallback sample.
C3_FallbackOnNoMatch ==
  (Returned /\ Len(allChunks) > 0 /\ ~SomeRowScoresPositive) => result = FallbackSample

\* C4: when some fetched row scores above zero, every returned chunk has a
\* positive score.
C4_PositiveOnly ==
  (Returned /\ SomeRowScoresPositive) =>
     \A i \in 1..Len(result) : ~ScoreIsZero(result[i].score)

FetchedIndexIds ==
  \A i \in 1..Len(allChunks) : IsArrayIndex(allChunks[i].knowledgeFileId)

\* the list does not depend on the order of the rows when the ids of the
\* fetched rows are array indices
DeterminismForIndexIds ==
  (Returned /\ storeRead /\ FetchedIndexIds) =>
     result = IF Len(TableOrderRows) = 0 THEN <<>>
              ELSE SelectChunks(TableOrderRows, call.query, call.fileNameMap,
                                call.maxChunks, call.maxChars)

\* rows returned out of table order and a fallback sample of two documents
\* whose ids are array indices
TwoDocumentFallback ==
  /\ Returned
  /\ storeRead
  /\ FetchedIndexIds
  /\ allChunks # TableOrderRows
  /\ Len(result) >= 2
  /\ ScoreIsZero(result[1].score)
  /\ result[1].fileId # result[2].fileId

\* rows returned out of table order and a ranked list that needed the last
\* tie-break
RankedTieBreak ==
  /\ Returned
  /\ storeRead
  /\ allChunks # TableOrderRows
  /\ Len(result) >= 2
  /\ ~ScoreIsZero(result[1].score)
  /\ ScoreDiff(result[1].score, result[2].score) = 0
  /\ result[1].fileId = result[2].fileId

\* C6: a call with an empty id list returns the empty list and neither
\* obtains the store handle nor reads the store.
C6_EmptyIdList ==
  (pc = "done" /\ Len(call.knowledgeFileIds) = 0) =>
     /\ outcome = "returned"
     /\ result = <<>>
     /\ ~dbObtained
     /\ ~storeRead

\* an empty-list call finished where getDb would have created the handle
C6_Witness ==
  /\ Returned
  /\ Len(call.knowledgeFileIds) = 0
  /\ dbUrl
  /\ dbHandle = Null

\* C7: a call that needs the store while the store is unavailable (no
\* handle, or the server does not answer) ends with an error.
C7_OutageIsError ==
  (pc = "done" /\ Len(call.knowledgeFileIds) > 0 /\ (dbHandle = Null \/ ~dbUp)) =>
     outcome = "threw"

\* the scored list of the finished call, in the order the rows were fetched
ScoredRows == ScoreChunks(allChunks, CallQueryTerms, call.fileNameMap)
RankedBefore(a, b) == CompareScored(a, b) < 0

\* the chunk ranked first in the scored list fits the budget, so the accept
\* loop selects it and the call takes the ranked path
FirstRankedFits(scored) ==
  \E i \in 1..Len(scored) :
    /\ \A j \in 1..Len(scored) : CompareScored(scored[i], scored[j]) <= 0
    /\ Len(scored[i].content) <= call.maxChars

OnRankedPath == Returned /\ FirstRankedFits(ScoredRows)

\* C20: on the ranked path the returned list is a prefix of the scored list
\* sorted by score descending, document id ascending, chunk index ascending:
\* it is in that order, and no chunk that is left out is ranked before a
\* chunk that is returned.
C20_PrefixOfRanking ==
  Returned =>
    LET scored == ScoredRows
        ranked == Range(scored)
    IN FirstRankedFits(scored) =>
         /\ \A i \in 1..Len(result) : result[i] \in ranked
         /\ \A i, j \in 1..Len(result) : i < j => RankedBefore(result[i], result[j])
         /\ \A c \in ranked \ Range(result) :
              \A i \in 1..Len(result) : ~RankedBefore(c, result[i])

\* rows fetched out of rank order, two of them returned and one left out
C20_Witness ==
  /\ OnRankedPath
  /\ Len(result) = 2
  /\ Len(ScoredRows) > 2
  /\ RankedBefore(ScoredRows[2], ScoredRows[1])
  /\ result[1] # ScoredRows[1]

\* ------------------------------------------------------------------------
\* Properties of splitTextIntoChunks
\* ------------------------------------------------------------------------
\* 0-based positions of the cleaned input text
CleanPositions == 0..(Len(CleanText(text)) - 1)
SplitReturned == cpc = "returned"

\* C8 as stated: for a non-empty text and overlap >= 0, every character
\* position of the cleaned text lies in the content of some returned chunk.
C8_EveryPositionCovered ==
  (SplitReturned /\ Len(text) > 0 /\ overlap >= 0) =>
     \A p \in CleanPositions : p \in covered

\* C8 amended: for a non-empty text and overlap >= 0, every position of the
\* cleaned text that holds a non-whitespace character lies in the content of
\* some returned chunk; the positions left out are whitespace trimmed off a
\* chunk's ends.
C8_NonWhitespaceCovered ==
  (SplitReturned /\ Len(text) > 0 /\ overlap >= 0) =>
     \A p \in CleanPositions :
        ~IsWhitespace(CleanText(text)[p + 1]) => p \in covered

\* several chunks were cut and a whitespace position fell between two of them
C8_Witness ==
  /\ SplitReturned
  /\ overlap >= 0
  /\ Len(chunks) >= 2
  /\ \E p \in CleanPositions : p \notin covered

\* C9: the loop of splitTextIntoChunks cannot run on: every iteration moves
\* the window start strictly forward, for every overlap (also overlap >=
\* chunkSize and negative overlap), so the iterations made never outnumber
\* the characters of the cleaned text and the loop is left once start has
\* reached the end of the text.
C9_Termination ==
  /\ [](iterations <= Len(cleanedText))
  /\ [][(cpc = "loop" /\ cpc' = "loop") => start' > start]_vars
  /\ [][(cpc = "loop" /\ ~(start < Len(cleanedText))) => cpc' = "returned"]_vars

\* the loop ran several times with an overlap no smaller than the chunk size
C9_Witness ==
  /\ SplitReturned
  /\ overlap >= chunkSize
  /\ Len(chunks) >= 3

\* the single chunk of the degenerate case
SingleChunk ==
  <<[index |-> 0, content |-> CleanText(text), charCount |-> Len(CleanText(text))]>>

\* C10 as stated: every text whose cleaned length is at most chunkSize
\* yields exactly one chunk, index 0, holding the whole cleaned text.
C10_AlwaysOneChunk ==
  (SplitReturned /\ Len(CleanText(text)) <= chunkSize) => chunks = SingleChunk

\* C10 amended: every text that is not empty or whitespace-only and whose
\* cleaned length is at most chunkSize yields exactly one chunk, index 0,
\* holding the whole cleaned text.
C10_OneChunkUnlessBlank ==
  (SplitReturned /\ Len(Trim(text)) > 0 /\ Len(CleanText(text)) <= chunkSize) =>
     chunks = SingleChunk

\* a text longer than chunkSize whose cleaned form has exactly chunkSize
\* characters
C10_Witness ==
  /\ SplitReturned
  /\ Len(text) > chunkSize
  /\ Len(CleanText(text)) = chunkSize
  /\ chunks = SingleChunk

\* ------------------------------------------------------------------------
\* Properties of the repeated-sentence scenario
\* ------------------------------------------------------------------------
ScenarioText == Repeat(ScenarioSentence, 200)
ScenarioReturned ==
  /\ SplitReturned
  /\ text = ScenarioText
  /\ chunkSize = DEFAULT_CHUNK_SIZE
  /\ overlap = DEFAULT_CHUNK_OVERLAP

\* C11: the 1400-character text, chunked with size 800 and overlap 100,
\* yields exactly 2 chunks, each ending at the sentence mark, and the second
\* chunk starts at most 100 characters before the end of the first: the
\* first chunk is the text up to some cut, the second the text from at most
\* 100 characters before that cut to the end.
C11_TwoChunks ==
  ScenarioReturned =>
    /\ Len(chunks) = 2
    /\ \A i \in 1..Len(chunks) : chunks[i].content[Len(chunks[i].content)] = ChCjkFullStop
    /\ \E cut \in 1..Len(text), back \in 0..DEFAULT_CHUNK_OVERLAP :
         /\ chunks[1].content = Slice(text, 0, cut)
         /\ chunks[2].content = Slice(text, cut - back, Len(text))

\* ------------------------------------------------------------------------
\* Properties of tokenize and computeScore
\* ------------------------------------------------------------------------
\* a letter that toLowerCase turns into a..z: A..Z, a..z, U+212A, U+0130
IsLatinLetter(c) == \E i \in 1..Len(LowerCaseUnit(c)) : IsLatinLower(LowerCaseUnit(c)[i])
CjkCount(s) == Len(SelectSeq(s, IsCJK))
Tokenized == spc = "tokenized"
Scored == spc = "scored"
\* a text with at least two CJK characters and no Latin letter or digit
CjkOnlyInput(s) ==
  /\ CjkCount(s) >= 2
  /\ \A i \in 1..Len(s) : ~IsLatinLetter(s[i]) /\ ~IsDigit(s[i])

\* C12: for an input with N >= 2 CJK characters and no Latin letters or
\* digits, tokenize returns 2N-1 terms: N unigrams followed by N-1 bigrams.
C12_BigramCount ==
  (Tokenized /\ CjkOnlyInput(tokText)) =>
    LET n == CjkCount(tokText)
    IN /\ Len(terms) = 2 * n - 1
       /\ \A i \in 1..n : Len(terms[i]) = 1
       /\ \A i \in (n + 1)..(2 * n - 1) : Len(terms[i]) = 2
       /\ Cardinality({i \in 1..Len(terms) : Len(terms[i]) = 1}) = n
       /\ Cardinality({i \in 1..Len(terms) : Len(terms[i]) = 2}) = n - 1

C12_Witness ==
  /\ Tokenized
  /\ CjkOnlyInput(tokText)
  /\ CjkCount(tokText) = 3
  /\ Len(tokText) = 4
  /\ Len(terms) = 5

\* the number of terms of the second chunk counted as matches
MatchCountB == Len(MatchedTerms(QueryTermSet(scQuery), scChunkB))

\* C13: for one query term set and two chunks with the same number of
\* terms, the chunk with strictly more term occurrences found in the query
\* set does not receive the lower score.
C13_Monotone ==
  /\ (Scored /\ Len(tokenize(scChunkA)) = Len(tokenize(scChunkB))
             /\ Len(matchedA) > MatchCountB)
       => ScoreDiff(scoreA, scoreB) >= 0
  /\ (Scored /\ Len(tokenize(scChunkA)) = Len(tokenize(scChunkB))
             /\ Len(matchedA) < MatchCountB)
       => ScoreDiff(scoreB, scoreA) >= 0

C13_Witness ==
  /\ Scored
  /\ Len(tokenize(scChunkA)) = 3
  /\ Len(tokenize(scChunkB)) = 3
  /\ Len(matchedA) = 2
  /\ MatchCountB = 1
  /\ ScoreDiff(scoreA, scoreB) = 1

\* C14: a chunk whose content gives no terms scores exactly 0, whatever the
\* query term set; the score is a number (not the NaN of 0 / sqrt(0)) and
\* the call returns.
C14_NoTermsScoreZero ==
  /\ (Scored /\ Len(tokenize(scChunkA)) = 0) => (ScoreIsZero(scoreA) /\ ~ScoreIsNaN(scoreA))
  /\ (Scored /\ Len(tokenize(scChunkB)) = 0) => (ScoreIsZero(scoreB) /\ ~ScoreIsNaN(scoreB))

C14_Witness ==
  /\ Scored
  /\ scChunkA = <<97>>
  /\ QueryTermSet(scQuery) # {}
  /\ scoreA = ZeroScore

ScenarioScored ==
  /\ Scored
  /\ scQuery = ScenarioQuery
  /\ scChunkA = ScenarioChunkA
  /\ scChunkB = ScenarioChunkB

\* C15: for the scenario query the first scenario chunk scores strictly
\* above the second, and the bigram U+5206 U+6570 is counted twice among the
\* matching terms of the first chunk.
C15_ScenarioScore ==
  ScenarioScored =>
    /\ ScoreDiff(scoreA, scoreB) > 0
    /\ Cardinality({i \in 1..Len(matchedA) : matchedA[i] = TxtFenShu}) = 2

C15_Witness ==
  /\ ScenarioScored
  /\ scoreA = [num |-> 7, den |-> 27]
  /\ scoreB = [num |-> 0, den |-> 13]

\* ------------------------------------------------------------------------
\* Properties of upload, ingestion and deletion
\* ------------------------------------------------------------------------
RowsOfFile(id) == SelectSeq(knowledgeChunks, LAMBDA r : r.knowledgeFileId = id)
FileExists(id) == id \in DOMAIN knowledgeFiles
TaskIs(id, steps) == id \in DOMAIN tasks /\ tasks[id].step \in steps
IsBlank(t) == Len(Trim(t)) = 0

\* C16: no stored chunk references a file that does not exist, in any state,
\* also when a delete of the file ran between the steps of its ingestion
\* task and the task then called createKnowledgeChunks.
C16_NoOrphanedChunks ==
  \A i \in 1..Len(knowledgeChunks) : FileExists(knowledgeChunks[i].knowledgeFileId)

\* the task of id got an empty or blank text from the extraction
ExtractedBlank(id) ==
  /\ TaskIs(id, {"extracted", "stored", "completing", "caught", "failing", "done"})
  /\ ~tasks[id].outcome.threw
  /\ IsBlank(tasks[id].outcome.text)

DecoderThrows(input) ==
  IF input.mimeType = MimePdf \/ EndsWith(input.fileName, SuffixPdf)
    THEN input.buffer.pdf.threw
  ELSE IF input.mimeType = MimeDocx \/ EndsWith(input.fileName, SuffixDocx)
    THEN input.buffer.docx.threw
  ELSE FALSE

\* the extraction of the task of id gave bytes to the PDF or the DOCX
\* decoder and the decoder threw
DecoderThrew(id) ==
  /\ TaskIs(id, {"extracted", "caught", "failing", "storing", "stored", "completing",
                 "done"})
  /\ tasks[id].decoded
  /\ DecoderThrows([tasks[id].input EXCEPT !.buffer = tasks[id].buffer])

RECURSIVE IsSubsequence(_, _)
IsSubsequence(a, b) ==
  IF a = <<>> THEN TRUE
  ELSE IF b = <<>> THEN FALSE
  ELSE IF Head(a) = Head(b) THEN IsSubsequence(Tail(a), Tail(b))
  ELSE IsSubsequence(a, Tail(b))

IsPrefix(a, b) == Len(a) <= Len(b) /\ SubSeq(b, 1, Len(a)) = a

\* C19: every step of upload, ingestion, update, deletion and retrieval
\* either takes rows out of the chunk table or adds rows at its end: a row
\* that is still there has the file id, index, content and charCount it
\* was inserted with.
C19_WriteOnce ==
  [][IsSubsequence(knowledgeChunks', knowledgeChunks)
       \/ IsPrefix(knowledgeChunks, knowledgeChunks')]_vars

\* the chunk of the second file is as its task inserted it, after the first
\* file was ingested, updated and deleted and a retrieval has returned it
C19_Witness ==
  /\ TaskIs(1, {"done"}) /\ ~FileExists(1) /\ tasks[1].chunkCount = 1
  /\ TaskIs(2, {"done"}) /\ FileExists(2)
  /\ knowledgeFiles[2].processingStatus = "completed"
  /\ knowledgeChunks = TaskRows(2, OwnerOf(2), <<[index |-> 0, content |-> TxtAB, charCount |-> 2]>>)
  /\ Returned
  /\ Len(result) = 1

\* a term made of two CJK characters
IsCjkBigram(term) == Len(term) = 2 /\ IsCJK(term[1]) /\ IsCJK(term[2])

\* C21: every bigram among the terms is a pair of CJK characters that stand
\* next to each other in the text; CJK characters with another character
\* between them form no bigram.
C21_BigramsAreAdjacent ==
  Tokenized =>
    \A i \in 1..Len(terms) :
      IsCjkBigram(terms[i]) =>
        \E p \in 1..(Len(tokText) - 1) :
          tokText[p] = terms[i][1] /\ tokText[p + 1] = terms[i][2]

\* ------------------------------------------------------------------------
\* Properties of the cut of a window
\* ------------------------------------------------------------------------
\* the character of cleanedText at offset p of the window that starts at start
WindowChar(p) == cleanedText[start + p + 1]
\* offsets in the window of the paragraph breaks and of the sentence marks
ParagraphBreaks ==
  {p \in 0..(chunkSize - 2) : WindowChar(p) = ChNewline /\ WindowChar(p + 1) = ChNewline}
SentenceMarks ==
  {p \in 0..(chunkSize - 1) : WindowChar(p) \in {ChCjkFullStop, ChCjkExclamation, ChCjkQuestion}}
    \cup {p \in 0..(chunkSize - 2) :
            WindowChar(p) \in {ChFullStop, ChExclamation, ChQuestion} /\ WindowChar(p + 1) = ChSpace}
LastPast(S) == S # {} /\ 10 * MaxOf(S) > 3 * chunkSize

\* the cut the window at start gets: after the last paragraph break past 30%
\* of chunkSize, else after the last sentence mark past 30%, else the raw cut
ExpectedCut ==
  IF LastPast(ParagraphBreaks) THEN start + MaxOf(ParagraphBreaks) + 2
  ELSE IF LastPast(SentenceMarks) THEN start + MaxOf(SentenceMarks) + 1
  ELSE start + chunkSize

\* C22: in every iteration whose tentative cut start + chunkSize is before
\* the end of the text, the cut is right after the last paragraph break of the
\* window if that lies past 30% of chunkSize, else right after the last
\* sentence mark if that lies past 30% of chunkSize, else at start + chunkSize.
C22_CutChoice ==
  [][(cpc = "loop" /\ iterations' = iterations + 1
        /\ start + chunkSize < Len(cleanedText))
       => lastEnd' = ExpectedCut]_vars

\* a window with a paragraph break at offset 2 and a sentence mark after it:
\* the cut is after the paragraph break, before the raw cut
C22_Witness ==
  /\ cpc = "loop"
  /\ iterations = 1
  /\ chunkSize = 5
  /\ cleanedText = <<97, 97, ChNewline, ChNewline, ChCjkFullStop, 97>>
  /\ lastEnd = 4

\* ------------------------------------------------------------------------
\* Properties of the chunks of splitTextIntoChunks, continued
\* ------------------------------------------------------------------------
\* C26: for a text longer than chunkSize and 0 <= overlap < chunkSize, every
\* chunk that is pushed covers a position of the cleaned text that no
\* earlier chunk covers.
C26_NoRedundantChunk ==
  [][(cpc = "loop" /\ overlap >= 0 /\ overlap < chunkSize /\ Len(chunks') > Len(chunks))
       => ~(covered' \subseteq covered)]_vars

\* C27: every returned chunk has a non-empty content without whitespace at
\* its ends and of at most chunkSize characters, its charCount is the length
\* of the content, and the chunk at position i of the list has index i.
C27_WellFormedChunks ==
  SplitReturned =>
    \A i \in 1..Len(chunks) :
      /\ Len(chunks[i].content) > 0
      /\ ~IsWhitespace(chunks[i].content[1])
      /\ ~IsWhitespace(chunks[i].content[Len(chunks[i].content)])
      /\ Len(chunks[i].content) <= chunkSize
      /\ chunks[i].charCount = Len(chunks[i].content)
      /\ chunks[i].index = i - 1

\* two chunks without overlap that are shorter than the text between them:
\* whitespace at the cut was trimmed off
C27_Witness ==
  /\ SplitReturned
  /\ overlap = 0
  /\ Len(chunks) = 2
  /\ chunks[2].index = 1
  /\ Len(chunks[1].content) + Len(chunks[2].content) < Len(cleanedText)

\* ------------------------------------------------------------------------
\* Properties of the extractors
\* ------------------------------------------------------------------------
Extracted == xpc = "extracted"
RulePdf == xCall.mimeType = MimePdf \/ EndsWith(xCall.fileName, SuffixPdf)
RuleDocx == xCall.mimeType = MimeDocx \/ EndsWith(xCall.fileName, SuffixDocx)
RuleDoc == xCall.mimeType = MimeDoc \/ EndsWith(xCall.fileName, SuffixDoc)
RuleText ==
  \/ StartsWith(xCall.mimeType, PrefixText)
  \/ EndsWith(xCall.fileName, SuffixTxt)
  \/ EndsWith(xCall.fileName, SuffixMd)

\* C23: extractTextFromBuffer gives the outcome of the first rule that
\* matches, in the order PDF, DOCX, legacy DOC, plain text: the PDF decoder's
\* outcome whenever the PDF rule matches, whatever else matches, and the
\* empty text, without error, when no rule matches.
C23_FirstMatchDispatch ==
  Extracted =>
    xFromBuffer =
      IF RulePdf THEN xCall.buffer.pdf
      ELSE IF RuleDocx THEN xCall.buffer.docx
      ELSE IF RuleDoc \/ RuleText THEN Returns(xCall.buffer.utf8)
      ELSE Returns(<<>>)

\* a PDF name with a text MIME type goes to the PDF decoder
C23_Witness ==
  /\ Extracted
  /\ xCall.mimeType = MimeTextPlain
  /\ xCall.fileName = NamePdf
  /\ xCall.buffer = Polyglot
  /\ xFromBuffer = Returns(<<80>>)

\* C28: on the same bytes, MIME type and file name the two extractors give
\* the same outcome when the fetch from the byte store succeeds;
\* extractTextFromFile throws when the fetch throws.
C28_SameDispatch ==
  Extracted =>
    /\ xCall.fetchOk => xFromFile = xFromBuffer
    /\ ~xCall.fetchOk => xFromFile = Threw

\* a legacy Word file without a MIME type is decoded as UTF-8 by both
C28_Witness ==
  /\ Extracted
  /\ xCall.fetchOk
  /\ xCall.mimeType = <<>>
  /\ xCall.fileName = NameDoc
  /\ xCall.buffer = Polyglot
  /\ xFromFile = Returns(<<85>>)
  /\ xFromBuffer = Returns(<<85>>)

\* the step is one of the call deleteKnowledgeFile(id, userId) (its getDb,
\* its first or its second statement), called by a user who does not own
\* the existing file id
NonOwnerDeleteStep ==
  /\ deleting' # deleting
  /\ LET d == IF deleting.active THEN deleting ELSE deleting'
     IN /\ d.active
        /\ d.id \in DOMAIN knowledgeFiles
        /\ knowledgeFiles[d.id].userId # d.userId

\* C25: a call deleteKnowledgeFile(id, userId) by a user who is not the
\* owner of file id leaves the stored chunks of the file and the row of the
\* file unchanged.
C25_OwnerScopedDelete ==
  [][NonOwnerDeleteStep =>
       /\ knowledgeChunks' = knowledgeChunks
       /\ knowledgeFiles' = knowledgeFiles]_vars

\* ------------------------------------------------------------------------
\* Properties of formatRetrievalContext
\* ------------------------------------------------------------------------
Formatted == fpc = "formatted"
\* the positions of the returned text that hold the content of chunk c
ContentPositions(c) == {p \in 1..Len(fOut.text) : fOut.text[p] = c.content[1]}
\* the start of the header of the section that position p lies in
HeaderStart(p) ==
  LET opens == {q \in 1..p : fOut.text[q] = ChOpenBracket}
  IN IF opens = {} THEN 0 ELSE CHOOSE q \in opens : \A r \in opens : r <= q
\* position p lies in a section whose header names fileName
UnderHeaderOf(p, fileName) ==
  LET q == HeaderStart(p)
      header == HeaderOpen \o fileName \o HeaderClose
  IN /\ q > 0
     /\ q + Len(header) - 1 < p
     /\ SubSeq(fOut.text, q, q + Len(header) - 1) = header

\* C24: formatRetrievalContext returns a text that holds the content of
\* every input chunk exactly once, in the section headed by the display name
\* of the chunk's document, the chunks of a section in ascending chunk index
\* whatever their order in the input; the text is empty exactly when the
\* input list is empty.
C24_EveryChunkOnceUnderItsName ==
  Formatted =>
    /\ ~fOut.threw
    /\ (fOut.text = <<>>) <=> (fChunks = <<>>)
    /\ \A i \in 1..Len(fChunks) :
         /\ Cardinality(ContentPositions(fChunks[i])) = 1
         /\ \A p \in ContentPositions(fChunks[i]) : UnderHeaderOf(p, fChunks[i].fileName)
    /\ \A i, j \in 1..Len(fChunks) :
         (/\ fChunks[i].fileName = fChunks[j].fileName
          /\ fChunks[i].chunkIndex < fChunks[j].chunkIndex)
           => \A p \in ContentPositions(fChunks[i]), q \in ContentPositions(fChunks[j]) : p < q

\* C29: in the returned text no section holds chunks of two different
\* documents, also when the two documents have the same display name or
\* both carry the default name.
C29_OneDocumentPerSection ==
  (Formatted /\ ~fOut.threw) =>
    \A i, j \in 1..Len(fChunks) :
      fChunks[i].fileId # fChunks[j].fileId
        => \A p \in ContentPositions(fChunks[i]), q \in ContentPositions(fChunks[j]) :
             HeaderStart(p) # HeaderStart(q)

\* ------------------------------------------------------------------------
\* Properties of incrementTemplateUsage
\* ------------------------------------------------------------------------
\* C30: when k calls of incrementTemplateUsage on a template have returned
\* and none is under way, in any interleaving of the calls, the usageCount
\* of the template has grown by k (it started at 0).
C30_NoLostUpdate ==
  \A id \in TemplateIds :
    (/\ id \in DOMAIN resourceTemplates
     /\ \A c \in CallerIds : ~(incCalls[c].step # "idle" /\ incCalls[c].id = id))
      => resourceTemplates[id].usageCount = incReturned[id]

====
